---- MODULE Spec2Model ----
(***************************************************************************)
(* OmniTrade control plane: the Gatekeeper (command registry, execution   *)
(* guard, token bucket, state controller, reconciliation engine) as a     *)
(* state machine.                                                         *)
(*                                                                        *)
(* Units.  Times are microseconds (Clock.now_us).  Token counts are kept  *)
(* in millionths of a token, so that the refill (now - last)/1e6 * rate   *)
(* is the integer (now - last) * rate.  Quantities are multiples of 1e-9, *)
(* the reconciliation epsilon, so that epsilon is 1.  Positions are       *)
(* binary floating-point numbers in the program; they are modelled as     *)
(* floating-point numbers with a significand of MantBits bits.            *)
(***************************************************************************)
EXTENDS Integers, Sequences, FiniteSets, TLC

VARIABLES
    registry,              \* CommandRegistry._orders: client order id -> intent
    in_safe_mode,          \* ExecutionGuard.in_safe_mode
    tokens,                \* TokenBucket.tokens (millionths of a token)
    last_update_ts,        \* TokenBucket.last_update_ts (us)
    now,                   \* Clock.now_us(): the monotonic clock (us)
    redis_observer,        \* redis keys observer:status, observer:last_update
    positions,             \* redis keys gk:positions:<symbol>
    orders,                \* redis keys gk:orders:<client_order_id>
    processed,             \* history: the execution reports processed so far
    ret,                   \* history: the last call, its result and its log
    bucket,                \* a TokenBucket of its own: rate, capacity, tokens, last_update_ts
    calls,                 \* history: the consume calls made on bucket
    running,               \* ObserverSystem.running
    packet_queue,          \* ObserverSystem.packet_queue
    sequence_tracker,      \* ObserverSystem.sequence_tracker: key -> last sequence id
    journal,               \* the lines of the RawJournal file, in file order
    journal_file,          \* RawJournal._file: "open" or "closed"
    drift_samples,         \* ObserverState.drift_samples
    gap_count,             \* redis key observer:gap_count
    start_pc,              \* where ObserverSystem.start stands
    ingest_pc,             \* where each _ingest_loop task stands
    process_pc,            \* where the _process_loop task stands
    shutdown_pc,           \* where the shutdown that found running set stands
    closed,                \* the exchanges whose close() has returned
    ignored,               \* history: a shutdown request found running cleared
    arrivals,              \* history: the packets the streams have yielded so far
    taken,                 \* history: the packets the processor has taken
    offered,               \* history: the samples handed to update_drift
    files,                 \* the journal files: path -> the lines of the file
    engines,               \* the ReplayEngine objects constructed so far
    threads                \* the threads that call the Gatekeeper: thread -> its frame

bucketvars == <<bucket, calls>>

obsvars == <<running, packet_queue, sequence_tracker, journal, journal_file,
             drift_samples, gap_count, start_pc, ingest_pc, process_pc,
             shutdown_pc, closed, ignored, arrivals, taken, offered>>

simvars == <<files, engines>>

vars == <<registry, in_safe_mode, tokens, last_update_ts, now, redis_observer,
          positions, orders, processed, ret, bucketvars, obsvars, simvars, threads>>

None == "None"

\* ---------------------------------------------------------------- bounds
MaxCloid == 51          \* client order ids are 1..MaxCloid
MaxReports == 2         \* execution reports processed in one behaviour
MaxNow == 2000001       \* the clock is not advanced beyond this
MantBits == 3           \* significand width of the modelled floats
MaxCalls == 5           \* consume calls on the two-token bucket
MaxScenarioCalls == 17  \* consume calls on the ten-token bucket
MaxPackets == 3         \* packets the streams yield in one behaviour
MaxSamples == 52        \* samples offered to the drift window alone
MaxLines == 3           \* lines of a journal file the simulator replays
MaxChain == 12          \* events of the journal replayed against references
MaxSession == 7         \* packets of the Observer session that is replayed
MaxThreads == 2         \* threads that call the Gatekeeper at the same time
MaxRuns == 2            \* calls of run on one ReplayEngine

\* ------------------------------------------------------ program constants
rate == 10                        \* tokens per second
capacity == 50 * 1000000          \* 50.0 tokens
OneToken == 1000000               \* consume(1.0)
HeartbeatTolerance == 2000000     \* 2 seconds
Epsilon == 1                      \* 1e-9 in quantity units

\* ----------------------------------------------------------------- inputs
Cloids == 1..MaxCloid
CoreCloids == 1..2
Symbols == {"X", "Y"}
Sides == {"BUY", "SELL"}
Statuses == {"NEW", "PARTIAL_FILL", "FILLED", "CANCELED", "REJECTED"}
ObserverStatuses == {"CONNECTED", "DEGRADED", "HALT"}
FillQtys == {1, 2 ^ MantBits}
SnapQtys == {0, 2}
TickDeltas == {2000000, 2000001}
ClockJitter == {0, 1}
Exchanges == {"BTC/USDT", "ETH/USDT"}    \* one BinanceObserver per symbol

Min(a, b) == IF a <= b THEN a ELSE b
Abs(x) == IF x < 0 THEN -x ELSE x

\* OrderIntent; the fields the Gatekeeper never reads are left out
OrderIntent(c, q) ==
    [client_order_id |-> c, symbol |-> "X", side |-> "BUY", quantity |-> q]

\* ExecutionReport; an order has one symbol: order 1 trades X, order 2 trades Y
SymbolOf(c) == IF c = 1 THEN "X" ELSE "Y"
ExecutionReport(c, sd, st, q) ==
    [client_order_id |-> c, symbol |-> SymbolOf(c), side |-> sd,
     status |-> st, filled_quantity |-> q]

\* ------------------------------------------------------------ Clock
\* Clock.now_us(): a reading of the monotonic clock taken d us after the
\* handler started
now_us(d) == now + d

\* time passes between two calls
Tick(d) ==
    /\ now + d <= MaxNow
    /\ now' = now + d
    /\ UNCHANGED <<bucketvars, obsvars, simvars, threads, registry, in_safe_mode, tokens, last_update_ts, redis_observer,
                   positions, orders, processed, ret>>

\* ------------------------------------------------------------ floats
RECURSIVE Granule(_, _)
\* the spacing of the floats around magnitude a: the least g = 2^k with
\* a < 2^MantBits * g
Granule(a, g) ==
    IF a < (2 ^ MantBits) * g THEN g ELSE Granule(a, 2 * g)

\* round to nearest, ties to even
FloatRound(x) ==
    LET a == Abs(x)
        g == Granule(a, 1)
        q == a \div g
        r == a % g
        m == IF 2 * r < g THEN q * g
             ELSE IF 2 * r > g THEN (q + 1) * g
             ELSE IF q % 2 = 0 THEN q * g ELSE (q + 1) * g
    IN  IF x < 0 THEN -m ELSE m

\* ------------------------------------------------------------ ObserverState
\* ObserverState.set_system_status: the Observer writes its status and the
\* heartbeat
set_system_status(status) ==
    /\ redis_observer' = ("observer:status" :> status) @@
                         ("observer:last_update" :> now_us(0))
    /\ UNCHANGED <<bucketvars, obsvars, simvars, threads, registry, in_safe_mode, tokens, last_update_ts, now,
                   positions, orders, processed, ret>>

\* ------------------------------------------------------------ CommandRegistry
\* register with the slip of storing the intent before the duplicate test
register_overwrite(reg, intent) ==
    IF intent.client_order_id \in DOMAIN reg
    THEN <<FALSE, (intent.client_order_id :> intent) @@ reg>>
    ELSE <<TRUE, (intent.client_order_id :> intent) @@ reg>>

\* CommandRegistry.register: <<returned value, registry afterwards>>
register(reg, intent) ==
    IF intent.client_order_id \in DOMAIN reg
    THEN <<FALSE, reg>>
    ELSE <<TRUE, (intent.client_order_id :> intent) @@ reg>>

\* CommandRegistry.get: the set holding the intent, empty when there is none
get(reg, client_order_id) ==
    IF client_order_id \in DOMAIN reg THEN {reg[client_order_id]} ELSE {}

\* ------------------------------------------------------------ TokenBucket
\* TokenBucket.__init__ at clock reading t
TokenBucket(r, cap, t) ==
    [rate |-> r, capacity |-> cap, tokens |-> cap, last_update_ts |-> t]

\* consume with the slip of refilling without the cap
TokenBucket_consume_uncapped(b, t, k) ==
    LET new_tokens == (t - b.last_update_ts) * b.rate
        refilled == b.tokens + new_tokens
    IN  IF refilled >= k
        THEN <<TRUE, [b EXCEPT !.tokens = refilled - k, !.last_update_ts = t]>>
        ELSE <<FALSE, [b EXCEPT !.tokens = refilled, !.last_update_ts = t]>>

\* consume with the slip of asking for more than k tokens
TokenBucket_consume_strict(b, t, k) ==
    LET new_tokens == (t - b.last_update_ts) * b.rate
        refilled == Min(b.capacity, b.tokens + new_tokens)
    IN  IF refilled > k
        THEN <<TRUE, [b EXCEPT !.tokens = refilled - k, !.last_update_ts = t]>>
        ELSE <<FALSE, [b EXCEPT !.tokens = refilled, !.last_update_ts = t]>>

\* TokenBucket.consume on the bucket b at clock reading t:
\* <<returned value, the bucket afterwards>>
TokenBucket_consume(b, t, k) ==
    LET new_tokens == (t - b.last_update_ts) * b.rate
        refilled == Min(b.capacity, b.tokens + new_tokens)
    IN  IF refilled >= k
        THEN <<TRUE, [b EXCEPT !.tokens = refilled - k, !.last_update_ts = t]>>
        ELSE <<FALSE, [b EXCEPT !.tokens = refilled, !.last_update_ts = t]>>

\* TokenBucket.consume on the guard's bucket at clock reading t:
\* <<returned value, tokens afterwards, last_update_ts afterwards>>
consume(tok, last, t, k) ==
    LET c == TokenBucket_consume([rate |-> rate, capacity |-> capacity,
                                  tokens |-> tok, last_update_ts |-> last], t, k)
    IN  <<c[1], c[2].tokens, c[2].last_update_ts>>

\* a call of bucket.consume(k): the clock is read once, the call is recorded
bucket_consume(k) ==
    LET c == TokenBucket_consume(bucket, now_us(0), k)
    IN  /\ bucket' = c[2]
        /\ calls' = Append(calls, [t |-> now_us(0), k |-> k, ok |-> c[1]])
        /\ UNCHANGED <<simvars, threads, registry, in_safe_mode, tokens, last_update_ts, now,
                       redis_observer, positions, orders, processed, ret, obsvars>>

\* ------------------------------------------------------------ ExecutionGuard
NoReason == [check |-> 0, text |-> "None"]

\* validate_intent with the slip of taking the token before the other checks
validate_intent_rate_first(t1, t2) ==
    LET status == IF "observer:status" \in DOMAIN redis_observer
                  THEN redis_observer["observer:status"] ELSE None
        last_seen == IF "observer:last_update" \in DOMAIN redis_observer
                     THEN redis_observer["observer:last_update"] ELSE 0
        c == consume(tokens, last_update_ts, t2, OneToken)
        blocked(n, text) == [ok |-> FALSE, reason |-> [check |-> n, text |-> text],
                             tokens |-> c[2], last_update_ts |-> c[3],
                             elapsed |-> t2 - t1]
    IN  IF ~c[1] THEN blocked(4, "HARD_BLOCK: Rate limit exceeded")
        ELSE IF in_safe_mode THEN blocked(1, "HARD_BLOCK: System in SAFE_MODE")
        ELSE IF status # "CONNECTED" THEN blocked(2, "HARD_BLOCK: Observer status is " \o status)
        ELSE IF (t1 - last_seen) > HeartbeatTolerance
             THEN blocked(3, "HARD_BLOCK: Observer heartbeat stale (>2s)")
        ELSE [ok |-> TRUE, reason |-> NoReason, tokens |-> c[2],
              last_update_ts |-> c[3], elapsed |-> t2 - t1]

\* ExecutionGuard.validate_intent with the clock read at t1 (heartbeat) and
\* t2 (token bucket): [ok, reason, tokens, last_update_ts, elapsed]
validate_intent(t1, t2) ==
    LET status == IF "observer:status" \in DOMAIN redis_observer
                  THEN redis_observer["observer:status"] ELSE None
        last_seen == IF "observer:last_update" \in DOMAIN redis_observer
                     THEN redis_observer["observer:last_update"] ELSE 0
        c == consume(tokens, last_update_ts, t2, OneToken)
        blocked(n, text) == [ok |-> FALSE, reason |-> [check |-> n, text |-> text],
                             tokens |-> tokens, last_update_ts |-> last_update_ts,
                             elapsed |-> 0]
    IN  IF in_safe_mode THEN blocked(1, "HARD_BLOCK: System in SAFE_MODE")
        ELSE IF status # "CONNECTED" THEN blocked(2, "HARD_BLOCK: Observer status is " \o status)
        ELSE IF (t1 - last_seen) > HeartbeatTolerance
             THEN blocked(3, "HARD_BLOCK: Observer heartbeat stale (>2s)")
        ELSE IF ~c[1]
             THEN [ok |-> FALSE,
                   reason |-> [check |-> 4, text |-> "HARD_BLOCK: Rate limit exceeded"],
                   tokens |-> c[2], last_update_ts |-> c[3], elapsed |-> t2 - t1]
        ELSE [ok |-> TRUE, reason |-> NoReason, tokens |-> c[2],
              last_update_ts |-> c[3], elapsed |-> t2 - t1]

\* ExecutionGuard.enter_safe_mode: the flag and the log line
safe_mode_activated(reason) == [event |-> "safe_mode_activated", reason |-> reason]

\* ExecutionGuard.enter_safe_mode, called by the operator
enter_safe_mode(reason) ==
    /\ in_safe_mode' = TRUE
    /\ ret' = [op |-> "enter_safe_mode", arg |-> reason, result |-> None,
               reason |-> NoReason, log |-> <<safe_mode_activated(reason)>>,
               compared |-> <<>>]
    /\ UNCHANGED <<bucketvars, obsvars, simvars, threads, registry, tokens, last_update_ts, now, redis_observer,
                   positions, orders, processed>>

\* ------------------------------------------------------------ Gatekeeper
\* submit_intent with the slip of validating before the idempotency check
submit_intent_guard_first(intent, d) ==
    LET r == register(registry, intent)
        v == validate_intent(now_us(0), now_us(d))
    IN  /\ now + d <= MaxNow
        /\ tokens' = v.tokens
        /\ last_update_ts' = v.last_update_ts
        /\ now' = now + v.elapsed
        /\ registry' = IF v.ok THEN r[2] ELSE registry
        /\ ret' = IF ~v.ok
                  THEN [op |-> "submit_intent", arg |-> intent, result |-> "HARD_BLOCK",
                        reason |-> v.reason, log |-> <<>>, compared |-> <<>>]
                  ELSE IF ~r[1]
                  THEN [op |-> "submit_intent", arg |-> intent, result |-> "DUPLICATE",
                        reason |-> NoReason,
                        log |-> <<[event |-> "duplicate_intent_ignored",
                                   cloid |-> intent.client_order_id]>>,
                        compared |-> <<>>]
                  ELSE [op |-> "submit_intent", arg |-> intent, result |-> "ACCEPTED",
                        reason |-> NoReason,
                        log |-> <<[event |-> "intent_accepted",
                                   cloid |-> intent.client_order_id]>>,
                        compared |-> <<>>]
        /\ UNCHANGED <<bucketvars, obsvars, simvars, threads, in_safe_mode, redis_observer, positions, orders, processed>>

\* Gatekeeper.submit_intent; d is the time between the two clock readings of
\* the guard
submit_intent(intent, d) ==
    LET r == register(registry, intent)
        v == validate_intent(now_us(0), now_us(d))
    IN  /\ registry' = r[2]
        /\ IF ~r[1]
           THEN /\ ret' = [op |-> "submit_intent", arg |-> intent, result |-> "DUPLICATE",
                           reason |-> NoReason,
                           log |-> <<[event |-> "duplicate_intent_ignored",
                                      cloid |-> intent.client_order_id]>>,
                           compared |-> <<>>]
                /\ UNCHANGED <<tokens, last_update_ts, now>>
           ELSE /\ now + d <= MaxNow
                /\ tokens' = v.tokens
                /\ last_update_ts' = v.last_update_ts
                /\ now' = now + v.elapsed
                /\ ret' = IF v.ok
                          THEN [op |-> "submit_intent", arg |-> intent, result |-> "ACCEPTED",
                                reason |-> NoReason,
                                log |-> <<[event |-> "intent_accepted",
                                           cloid |-> intent.client_order_id]>>,
                                compared |-> <<>>]
                          ELSE [op |-> "submit_intent", arg |-> intent, result |-> "HARD_BLOCK",
                                reason |-> v.reason, log |-> <<>>, compared |-> <<>>]
        /\ UNCHANGED <<bucketvars, obsvars, simvars, threads, in_safe_mode, redis_observer, positions, orders, processed>>

\* ------------------------------------------------------------ StateController
\* ExecutionReport.model_dump_json: the fields in declaration order
model_dump_json(report) ==
    <<<<"client_order_id", report.client_order_id>>, <<"symbol", report.symbol>>,
      <<"side", report.side>>, <<"status", report.status>>,
      <<"filled_quantity", report.filled_quantity>>>>

\* _update_order_state with the slip of a set-if-absent write
update_order_state_keep_first(ord, report) ==
    IF report.client_order_id \in DOMAIN ord
    THEN ord
    ELSE (report.client_order_id :> model_dump_json(report)) @@ ord

\* StateController._update_order_state: gk:orders afterwards
update_order_state(ord, report) ==
    (report.client_order_id :> model_dump_json(report)) @@ ord

\* redis INCRBYFLOAT: an absent key counts as 0; the sum is a float
incrbyfloat(pos, key, incr) ==
    LET old == IF key \in DOMAIN pos THEN pos[key] ELSE 0
    IN  (key :> FloatRound(old + incr)) @@ pos

\* StateController._update_position: gk:positions afterwards
update_position(pos, report) ==
    LET signed_qty == IF report.side = "BUY" THEN report.filled_quantity
                      ELSE -report.filled_quantity
    IN  incrbyfloat(pos, report.symbol, signed_qty)

\* StateController.get_position: float(val), 0.0 for an absent key
get_position(pos, symbol) ==
    IF symbol \in DOMAIN pos THEN FloatRound(pos[symbol]) ELSE 0

\* Gatekeeper.process_execution_report -> StateController.process_execution_report
process_execution_report(report) ==
    /\ Len(processed) < MaxReports
    /\ orders' = update_order_state(orders, report)
    /\ positions' = IF report.status \in {"PARTIAL_FILL", "FILLED"}
                    THEN update_position(positions, report)
                    ELSE positions
    /\ processed' = Append(processed, report)
    /\ ret' = [op |-> "process_execution_report", arg |-> report, result |-> None,
               reason |-> NoReason,
               log |-> <<[event |-> "state_updated",
                          client_order_id |-> report.client_order_id,
                          status |-> report.status,
                          filled_qty |-> report.filled_quantity]>>,
               compared |-> <<>>]
    /\ UNCHANGED <<bucketvars, obsvars, simvars, threads, registry, in_safe_mode, tokens, last_update_ts, now, redis_observer>>

\* ------------------------------------------------------------ ReconciliationEngine
RECURSIVE reconcile_loop_ge(_, _, _)
\* the loop with the slip of comparing with >= instead of >
reconcile_loop_ge(pos, snapshot, i) ==
    IF i > Len(snapshot)
    THEN [drift |-> {}, log |-> <<[event |-> "reconciliation_passed"]>>,
          compared |-> <<>>]
    ELSE LET symbol == snapshot[i][1]
             exchange_qty == snapshot[i][2]
             internal_qty == get_position(pos, symbol)
             rest == reconcile_loop_ge(pos, snapshot, i + 1)
         IN  IF Abs(FloatRound(internal_qty - exchange_qty)) >= Epsilon
             THEN [drift |-> {symbol},
                   log |-> <<[event |-> "CRITICAL_STATE_DRIFT", symbol |-> symbol,
                              internal |-> internal_qty, exchange |-> exchange_qty],
                             safe_mode_activated(<<"Drift detected for", symbol>>)>>,
                   compared |-> <<symbol>>]
             ELSE [rest EXCEPT !.compared = <<symbol>> \o @]

RECURSIVE reconcile_loop_no_return(_, _, _)
\* the loop with the slip of going on after a drift (the return is missing)
reconcile_loop_no_return(pos, snapshot, i) ==
    IF i > Len(snapshot)
    THEN [drift |-> {}, log |-> <<[event |-> "reconciliation_passed"]>>,
          compared |-> <<>>]
    ELSE LET symbol == snapshot[i][1]
             exchange_qty == snapshot[i][2]
             internal_qty == get_position(pos, symbol)
             rest == reconcile_loop_no_return(pos, snapshot, i + 1)
         IN  IF Abs(FloatRound(internal_qty - exchange_qty)) > Epsilon
             THEN [drift |-> {symbol} \cup rest.drift,
                   log |-> <<[event |-> "CRITICAL_STATE_DRIFT", symbol |-> symbol,
                              internal |-> internal_qty, exchange |-> exchange_qty],
                             safe_mode_activated(<<"Drift detected for", symbol>>)>>
                           \o rest.log,
                   compared |-> <<symbol>> \o rest.compared]
             ELSE [rest EXCEPT !.compared = <<symbol>> \o @]

RECURSIVE reconcile_loop(_, _, _)
\* the for loop of ReconciliationEngine.reconcile from item i of the snapshot
\* (a sequence of <<symbol, exchange_qty>> in the dict's iteration order):
\* [drift: the symbol that stopped the loop, if any; log: the records emitted;
\*  compared: the symbols whose position was read and compared]
reconcile_loop(pos, snapshot, i) ==
    IF i > Len(snapshot)
    THEN [drift |-> {}, log |-> <<[event |-> "reconciliation_passed"]>>,
          compared |-> <<>>]
    ELSE LET symbol == snapshot[i][1]
             exchange_qty == snapshot[i][2]
             internal_qty == get_position(pos, symbol)
             rest == reconcile_loop(pos, snapshot, i + 1)
         IN  IF Abs(FloatRound(internal_qty - exchange_qty)) > Epsilon
             THEN [drift |-> {symbol},
                   log |-> <<[event |-> "CRITICAL_STATE_DRIFT", symbol |-> symbol,
                              internal |-> internal_qty, exchange |-> exchange_qty],
                             safe_mode_activated(<<"Drift detected for", symbol>>)>>,
                   compared |-> <<symbol>>]
             ELSE [rest EXCEPT !.compared = <<symbol>> \o @]

\* reconcile with the slip of adopting the exchange quantity on a drift
reconcile_adopts(exchange_snapshot) ==
    LET r == reconcile_loop(positions, exchange_snapshot, 1)
        k == Len(r.compared)
    IN  /\ in_safe_mode' = IF r.drift # {} THEN TRUE ELSE in_safe_mode
        /\ ret' = [op |-> "reconcile", arg |-> exchange_snapshot, result |-> None,
                   reason |-> NoReason,
                   log |-> <<[event |-> "starting_reconciliation"]>> \o r.log,
                   compared |-> r.compared]
        /\ positions' = IF r.drift # {}
                        THEN (exchange_snapshot[k][1] :> exchange_snapshot[k][2]) @@ positions
                        ELSE positions
        /\ UNCHANGED <<bucketvars, obsvars, simvars, threads, registry, tokens, last_update_ts, now, redis_observer,
                       orders, processed>>

\* reconcile with the slip of writing the cycle's outcome to the safe-mode flag
reconcile_resets(exchange_snapshot) ==
    LET r == reconcile_loop(positions, exchange_snapshot, 1)
    IN  /\ in_safe_mode' = (r.drift # {})
        /\ ret' = [op |-> "reconcile", arg |-> exchange_snapshot, result |-> None,
                   reason |-> NoReason,
                   log |-> <<[event |-> "starting_reconciliation"]>> \o r.log,
                   compared |-> r.compared]
        /\ UNCHANGED <<bucketvars, obsvars, simvars, threads, registry, tokens, last_update_ts, now, redis_observer,
                       positions, orders, processed>>

\* ReconciliationEngine.reconcile
reconcile(exchange_snapshot) ==
    LET r == reconcile_loop(positions, exchange_snapshot, 1)
    IN  /\ in_safe_mode' = IF r.drift # {} THEN TRUE ELSE in_safe_mode
        /\ ret' = [op |-> "reconcile", arg |-> exchange_snapshot, result |-> None,
                   reason |-> NoReason,
                   log |-> <<[event |-> "starting_reconciliation"]>> \o r.log,
                   compared |-> r.compared]
        /\ UNCHANGED <<bucketvars, obsvars, simvars, threads, registry, tokens, last_update_ts, now, redis_observer,
                       positions, orders, processed>>

\* ------------------------------------------------------------ Observer
maxsize == 0                  \* asyncio.Queue(): the queue has no bound
DriftLimit == 500000          \* 500 ms
max_drift_samples == 50       \* ObserverState.max_drift_samples
ExchangeList == <<"BTC/USDT", "ETH/USDT">>    \* ObserverSystem.exchanges

\* the Gatekeeper's own state, which the Observer never touches
gkvars == <<registry, in_safe_mode, tokens, last_update_ts, positions, orders,
            processed, ret, threads>>

\* Packet, as BinanceObserver._wrap_packet builds it; exchange_ts and payload
\* are never read.  sequence_id is {s}, or {} for None.  Arrival instants
\* are distinct in the model: n is the number of the arrival.
Packet(n, topic, seq, drift) ==
    [local_arrival_ts |-> n, drift_us |-> drift, source |-> "binance_ccxt",
     topic |-> topic, sequence_id |-> seq]

\* JournalEntry; the timestamps of the entries are left out
JournalEntry(event_type, data) == [event_type |-> event_type, data |-> data]

\* RawJournal.append: one line at the end of the file
append(j, entry) == Append(j, entry)

\* asyncio.Queue.full
full(q) == maxsize > 0 /\ Len(q) >= maxsize

\* ObserverState.get_system_status
get_system_status(red) ==
    IF "observer:status" \in DOMAIN red THEN red["observer:status"] ELSE "UNKNOWN"

RECURSIVE SeqSum(_)
SeqSum(q) == IF q = <<>> THEN 0 ELSE Head(q) + SeqSum(Tail(q))

\* update_drift with the slip of evicting the newest sample
update_drift_pop_last(samples, drift_us) ==
    LET appended == Append(samples, drift_us)
        window == IF Len(appended) > max_drift_samples
                  THEN SubSeq(appended, 1, Len(appended) - 1) ELSE appended
    IN  [samples |-> window,
         mean_us |-> [sum |-> SeqSum(window), count |-> Len(window)],
         sample_count |-> Len(window)]

\* ObserverState.update_drift: the window afterwards and the DriftStats.
\* The mean is kept as the exact fraction sum/count; the slope, which nothing
\* reads, is left out.
update_drift(samples, drift_us) ==
    LET appended == Append(samples, drift_us)
        window == IF Len(appended) > max_drift_samples
                  THEN Tail(appended) ELSE appended
    IN  [samples |-> window,
         mean_us |-> [sum |-> SeqSum(window), count |-> Len(window)],
         sample_count |-> Len(window)]

\* the state the processor works on: redis, the journal and its own fields
ObserverStore ==
    [redis |-> redis_observer, journal |-> journal,
     sequence_tracker |-> sequence_tracker, gap_count |-> gap_count,
     drift_samples |-> drift_samples]

\* _transition_status with the slip of leaving the journal entry out
_transition_status_unjournaled(st, new_status, reason, payload) ==
    [st EXCEPT
       !.redis = ("observer:status" :> new_status) @@
                 ("observer:last_update" :> now_us(0)) @@ @]

\* ObserverSystem._transition_status: redis first, then the journal
_transition_status(st, new_status, reason, payload) ==
    [st EXCEPT
       !.redis = ("observer:status" :> new_status) @@
                 ("observer:last_update" :> now_us(0)) @@ @,
       !.journal = append(@, JournalEntry("STATUS_CHANGE",
                       [status |-> new_status, reason |-> reason,
                        payload |-> payload]))]

\* the key with the slip of leaving the topic out
key_of_source(packet) == packet.source

\* the key of the sequence tracker
key_of(packet) == packet.source \o ":" \o packet.topic

\* the gap check with the slip of degrading whatever the status is
detect_gap_always_degrades(st, packet) ==
    LET key == key_of(packet)
        seq_id == CHOOSE x \in packet.sequence_id : TRUE
        last_seq == st.sequence_tracker[key]
        expected == last_seq + 1
        gap_size == seq_id - expected
        msg == "Sequence Gap: Expected " \o ToString(expected) \o
               ", Got " \o ToString(seq_id)
        gapped == [st EXCEPT
                     !.journal = append(@, JournalEntry("GAP",
                                     [source |-> key, expected |-> expected,
                                      got |-> seq_id])),
                     !.gap_count = @ + 1]
        degraded == IF TRUE
                    THEN _transition_status(gapped, "DEGRADED", msg,
                                            [gap |-> gap_size])
                    ELSE gapped
        checked == IF key \in DOMAIN st.sequence_tracker /\ seq_id > expected
                   THEN degraded ELSE st
    IN  IF packet.sequence_id = {} THEN st
        ELSE [checked EXCEPT !.sequence_tracker = (key :> seq_id) @@ @]

\* _process_loop, step 1: sequence and gap detection for one packet
detect_gap(st, packet) ==
    LET key == key_of(packet)
        seq_id == CHOOSE x \in packet.sequence_id : TRUE
        last_seq == st.sequence_tracker[key]
        expected == last_seq + 1
        gap_size == seq_id - expected
        msg == "Sequence Gap: Expected " \o ToString(expected) \o
               ", Got " \o ToString(seq_id)
        gapped == [st EXCEPT
                     !.journal = append(@, JournalEntry("GAP",
                                     [source |-> key, expected |-> expected,
                                      got |-> seq_id])),
                     !.gap_count = @ + 1]
        degraded == IF get_system_status(gapped.redis) = "CONNECTED"
                    THEN _transition_status(gapped, "DEGRADED", msg,
                                            [gap |-> gap_size])
                    ELSE gapped
        checked == IF key \in DOMAIN st.sequence_tracker /\ seq_id > expected
                   THEN degraded ELSE st
    IN  IF packet.sequence_id = {} THEN st
        ELSE [checked EXCEPT !.sequence_tracker = (key :> seq_id) @@ @]

\* the drift check with the slip of journaling the HALT only when it is news
check_drift_once(st, packet) ==
    LET stats == update_drift(st.drift_samples, packet.drift_us)
        updated == [st EXCEPT !.drift_samples = stats.samples]
    IN  IF /\ Abs(stats.mean_us.sum) > DriftLimit * stats.mean_us.count
           /\ get_system_status(st.redis) # "HALT"
        THEN _transition_status(updated, "HALT", "Drift Violation",
                                [mean_drift_us |-> stats.mean_us])
        ELSE updated

\* _process_loop, steps 2 and 3: the drift window and the HALT predicate
check_drift(st, packet) ==
    LET stats == update_drift(st.drift_samples, packet.drift_us)
        updated == [st EXCEPT !.drift_samples = stats.samples]
    IN  IF Abs(stats.mean_us.sum) > DriftLimit * stats.mean_us.count
        THEN _transition_status(updated, "HALT", "Drift Violation",
                                [mean_drift_us |-> stats.mean_us])
        ELSE updated

\* ObserverSystem.start up to the await of gather: the tasks are created,
\* the signal handlers are installed, the status becomes CONNECTED
start ==
    LET st == _transition_status(ObserverStore, "CONNECTED", "Startup complete", <<>>)
    IN  /\ start_pc = "init"
        /\ start_pc' = "gather"
        /\ ingest_pc' = [e \in Exchanges |-> "listen"]
        /\ process_pc' = "get"
        /\ redis_observer' = st.redis
        /\ journal' = st.journal
        /\ UNCHANGED <<gkvars, simvars, now, bucketvars, running, packet_queue,
                       sequence_tracker, journal_file, drift_samples, gap_count,
                       shutdown_pc, closed, ignored, arrivals, taken, offered>>

\* the ingestor with the slip of queuing a packet that is not journaled
_ingest_loop_unjournaled(e, packet) ==
    /\ ingest_pc[e] = "listen"
    /\ packet.topic = e
    /\ arrivals' = arrivals + 1
    /\ IF ~running
       THEN /\ ingest_pc' = [ingest_pc EXCEPT ![e] = "done"]
            /\ UNCHANGED <<journal, packet_queue>>
       ELSE /\ ~full(packet_queue)
            /\ packet_queue' = Append(packet_queue, packet)
            /\ UNCHANGED <<journal, ingest_pc>>
    /\ UNCHANGED <<gkvars, simvars, now, redis_observer, bucketvars, running,
                   sequence_tracker, journal_file, drift_samples, gap_count,
                   start_pc, process_pc, shutdown_pc, closed, ignored, taken,
                   offered>>

\* _ingest_loop, one turn: the stream of exchange e yields a packet; the
\* PACKET entry is appended, then the packet is put on the queue.  The put
\* never waits, because the queue is never full.
_ingest_loop(e, packet) ==
    /\ ingest_pc[e] = "listen"
    /\ packet.topic = e
    /\ arrivals' = arrivals + 1
    /\ IF ~running
       THEN /\ ingest_pc' = [ingest_pc EXCEPT ![e] = "done"]
            /\ UNCHANGED <<journal, packet_queue>>
       ELSE /\ ~full(packet_queue)
            /\ journal' = append(journal, JournalEntry("PACKET", packet))
            /\ packet_queue' = Append(packet_queue, packet)
            /\ UNCHANGED ingest_pc
    /\ UNCHANGED <<gkvars, simvars, now, redis_observer, bucketvars, running,
                   sequence_tracker, journal_file, drift_samples, gap_count,
                   start_pc, process_pc, shutdown_pc, closed, ignored, taken,
                   offered>>

\* BinanceObserver.listen raises: the _ingest_loop task of e ends with the
\* error, and gather hands it to start
stream_failure(e) ==
    /\ ingest_pc[e] = "listen"
    /\ ingest_pc' = [ingest_pc EXCEPT ![e] = "failed"]
    /\ UNCHANGED <<gkvars, simvars, now, redis_observer, bucketvars, running,
                   packet_queue, sequence_tracker, journal, journal_file,
                   drift_samples, gap_count, start_pc, process_pc, shutdown_pc,
                   closed, ignored, arrivals, taken, offered>>

\* _process_loop, one turn: a packet is taken from the queue and processed;
\* running is read again before the next get
_process_loop ==
    /\ process_pc = "get"
    /\ packet_queue # <<>>
    /\ LET packet == Head(packet_queue)
           st == check_drift(detect_gap(ObserverStore, packet), packet)
       IN  /\ packet_queue' = Tail(packet_queue)
           /\ redis_observer' = st.redis
           /\ journal' = st.journal
           /\ sequence_tracker' = st.sequence_tracker
           /\ gap_count' = st.gap_count
           /\ drift_samples' = st.drift_samples
           /\ taken' = Append(taken, packet)
           /\ offered' = Append(offered, packet.drift_us)
    /\ process_pc' = IF running THEN "get" ELSE "done"
    /\ UNCHANGED <<gkvars, simvars, now, bucketvars, running, journal_file, start_pc,
                   ingest_pc, shutdown_pc, closed, ignored, arrivals>>

\* asyncio.Task.cancel on the ingestors and the processor that still run
cancelled_ingestors ==
    [e \in Exchanges |-> IF ingest_pc[e] = "listen" THEN "cancelled" ELSE ingest_pc[e]]

cancelled_processor == IF process_pc = "get" THEN "cancelled" ELSE process_pc

\* ObserverSystem.shutdown(sig) run by the task the signal handler creates,
\* up to its first await: nothing when running is already cleared
shutdown(sig) ==
    LET st == _transition_status(ObserverStore, "HALT", "Shutdown Initiated",
                                 [signal |-> sig])
    IN  /\ start_pc \in {"gather", "closing"}
        /\ IF ~running
           THEN /\ ignored' = TRUE
                /\ UNCHANGED <<running, redis_observer, journal, shutdown_pc>>
           ELSE /\ running' = FALSE
                /\ redis_observer' = st.redis
                /\ journal' = st.journal
                /\ shutdown_pc' = "signal"
                /\ UNCHANGED ignored
        /\ UNCHANGED <<gkvars, simvars, now, bucketvars, packet_queue, sequence_tracker,
                       journal_file, drift_samples, gap_count, start_pc,
                       ingest_pc, process_pc, closed, arrivals, taken, offered>>

\* start with the slip of swallowing the error of the stream: it returns,
\* and asyncio.run cancels every task that is left
start_except_swallows ==
    /\ start_pc = "gather"
    /\ \E e \in Exchanges : ingest_pc[e] = "failed"
    /\ start_pc' = "done"
    /\ ingest_pc' = cancelled_ingestors
    /\ process_pc' = cancelled_processor
    /\ shutdown_pc' = IF shutdown_pc = "signal" THEN "aborted" ELSE shutdown_pc
    /\ UNCHANGED <<gkvars, simvars, now, redis_observer, bucketvars, running,
                   packet_queue, sequence_tracker, journal, journal_file,
                   drift_samples, gap_count, closed, ignored, arrivals, taken,
                   offered>>

\* ObserverSystem.start, the except and finally clauses: gather has raised
\* the error of a stream.  The HALT is journaled, then shutdown(SIGTERM) is
\* called; when a shutdown is already under way it returns at once, start
\* returns, and asyncio.run cancels every task that is left.
start_except ==
    LET failed == _transition_status(ObserverStore, "HALT",
                      "Critical Failure: stream", [error |-> "stream"])
        st == _transition_status(failed, "HALT", "Shutdown Initiated",
                                 [signal |-> "SIGTERM"])
    IN  /\ start_pc = "gather"
        /\ \E e \in Exchanges : ingest_pc[e] = "failed"
        /\ IF running
           THEN /\ running' = FALSE
                /\ redis_observer' = st.redis
                /\ journal' = st.journal
                /\ start_pc' = "closing"
                /\ shutdown_pc' = "start"
                /\ UNCHANGED <<ingest_pc, process_pc>>
           ELSE /\ redis_observer' = failed.redis
                /\ journal' = failed.journal
                /\ start_pc' = "done"
                /\ shutdown_pc' = "aborted"
                /\ ingest_pc' = cancelled_ingestors
                /\ process_pc' = cancelled_processor
                /\ UNCHANGED running
        /\ UNCHANGED <<gkvars, simvars, now, bucketvars, packet_queue, sequence_tracker,
                       journal_file, drift_samples, gap_count, closed, ignored,
                       arrivals, taken, offered>>

\* ObserverSystem.shutdown resumes: the close() of the next exchange has
\* returned.  After the last one the journal is closed and every other task
\* is cancelled; start, cancelled or returning from shutdown, ends.
shutdown_resume ==
    LET e == ExchangeList[Cardinality(closed) + 1]
    IN  /\ shutdown_pc \in {"signal", "start"}
        /\ closed' = closed \cup {e}
        /\ IF closed' = Exchanges
           THEN /\ journal_file' = "closed"
                /\ ingest_pc' = cancelled_ingestors
                /\ process_pc' = cancelled_processor
                /\ start_pc' = "done"
                /\ shutdown_pc' = "complete"
           ELSE UNCHANGED <<journal_file, ingest_pc, process_pc, start_pc,
                            shutdown_pc>>
        /\ UNCHANGED <<gkvars, simvars, now, redis_observer, bucketvars, running,
                       packet_queue, sequence_tracker, journal, drift_samples,
                       gap_count, ignored, arrivals, taken, offered>>

\* a call of ObserverState.update_drift(drift_us) on its own
offer(drift_us) ==
    LET stats == update_drift(drift_samples, drift_us)
    IN  /\ drift_samples' = stats.samples
        /\ offered' = Append(offered, drift_us)
        /\ UNCHANGED <<gkvars, simvars, now, redis_observer, bucketvars, running,
                       packet_queue, sequence_tracker, journal, journal_file,
                       gap_count, start_pc, ingest_pc, process_pc, shutdown_pc,
                       closed, ignored, arrivals, taken>>

\* ------------------------------------------------------------ Simulator
\* Decimal: coefficient and exponent, the exponent counted from 1e-9, the
\* unit of the quantities.  Sums stay far below the 28 digits of
\* DECIMAL_CONTEXT, so they are exact.
RECURSIVE Strip(_, _)
Strip(c, e) == IF c % 10 = 0 THEN Strip(c \div 10, e + 1)
               ELSE [coeff |-> c, exp |-> e]

\* Decimal(str(q)) for a float q > 0: repr gives the shortest digits, without
\* trailing zeros
Decimal(q) == Strip(q, 0)

\* Decimal("0"), the position of a symbol that has none
Zero == [coeff |-> 0, exp |-> 9]

\* -d and a + b: the exponent of a sum is the smaller one
Negate(d) == [d EXCEPT !.coeff = -@]
Sum(a, b) ==
    LET e == Min(a.exp, b.exp)
    IN  [coeff |-> a.coeff * 10 ^ (a.exp - e) + b.coeff * 10 ^ (b.exp - e),
         exp |-> e]

\* the number a Decimal stands for, in quantity units; Decimal.__eq__
\* compares these
Value(d) == d.coeff * 10 ^ d.exp

\* str(Decimal), what DecimalEncoder.default writes: the digits of the
\* coefficient and the exponent, so 1.0 and 1.00 give different strings
DecimalEncoder(d) == <<d.coeff, d.exp>>

\* dict: the items in insertion order
dict_get(d, key, default) ==
    IF \E n \in 1..Len(d) : d[n][1] = key
    THEN d[CHOOSE n \in 1..Len(d) : d[n][1] = key][2]
    ELSE default

\* d[key] = value: a key that is there keeps its place
dict_set(d, key, value) ==
    IF \E n \in 1..Len(d) : d[n][1] = key
    THEN [n \in 1..Len(d) |-> IF d[n][1] = key THEN <<key, value>> ELSE d[n]]
    ELSE Append(d, <<key, value>>)

\* data.get(field, default)
Get(data, field, default) ==
    IF field \in DOMAIN data THEN data[field] ELSE default

\* the order of the keys as strings
SymbolRank(symbol) == IF symbol = "X" THEN 1 ELSE 2
CloidRank(client_order_id) == client_order_id

\* json.dumps(..., sort_keys=True) of a dict: the items by ascending key
sort_keys(d, Rank(_)) ==
    [i \in 1..Len(d) |->
        d[CHOOSE j \in 1..Len(d) :
            Cardinality({k \in 1..Len(d) : Rank(d[k][1]) < Rank(d[j][1])}) = i - 1]]

\* StateHasher.hash_full_state.  SHA-256 is taken to be free of collisions:
\* the hash is the serialised text itself.
hash_full_state(positions_, orders_, system_status, gap_count_) ==
    LET dumped == sort_keys(positions_, SymbolRank)
    IN  [positions |-> [n \in 1..Len(dumped) |->
                           <<dumped[n][1], DecimalEncoder(dumped[n][2])>>],
         orders |-> sort_keys(orders_, CloidRank),
         system_status |-> system_status,
         gap_count |-> gap_count_]

\* SimulatedStateStore.__init__
SimulatedStateStore ==
    [positions |-> <<>>, orders |-> <<>>, system_status |-> "CONNECTED",
     gap_count |-> 0, last_seen_ts |-> 0]

\* SimulatedStateStore.get_state_hash
get_state_hash(state) ==
    hash_full_state(state.positions, state.orders, state.system_status,
                    state.gap_count)

\* SimulatedStateStore.update_position
store_update_position(state, symbol, delta) ==
    [state EXCEPT !.positions =
        dict_set(@, symbol, Sum(dict_get(@, symbol, Zero), delta))]

\* ------------------------------------------------------------ JournalReader
\* A line of a journal file is its text: "" or " " for a line that strip()
\* empties, "{" for one that is no JSON object, "{...}" for an object,
\* whose fields event_type, timestamp and data come with it.
EventTypes == {"PACKET", "STATUS_CHANGE", "ERROR", "GAP"}
Line(event_type, timestamp, data) ==
    [text |-> "{...}", event_type |-> event_type, timestamp |-> timestamp,
     data |-> data]

\* str.strip
strip(line) == IF line.text \in {"", " "} THEN "" ELSE line.text

\* JournalEntry.model_validate_json: {entry}, or {} when it raises
model_validate_json(line) ==
    IF line.text = "{...}" /\ line.event_type \in EventTypes
    THEN {[event_type |-> line.event_type, timestamp |-> line.timestamp,
           data |-> line.data]}
    ELSE {}

SOURCE_PRIORITY ==
    [source \in {"binance_ws", "binance_ccxt", "kite_ws", "binance_rest",
                 "kite_rest"} |->
        IF source \in {"binance_rest", "kite_rest"} THEN 2 ELSE 1]
DEFAULT_PRIORITY == 3

\* 2**63, the sequence id of an event that has none: it stands above every
\* sequence id a journal carries
NoSequence == 2 ^ 30

\* OrderedEvent, as load builds it for the entry that is the index-th event
OrderedEvent(index, entry) ==
    LET source == Get(entry.data, "source", "unknown")
    IN  [index |-> index,
         local_arrival_ts |-> entry.timestamp,
         sequence_id |-> Get(entry.data, "sequence_id", {}),
         source_priority |-> IF source \in DOMAIN SOURCE_PRIORITY
                             THEN SOURCE_PRIORITY[source] ELSE DEFAULT_PRIORITY,
         event |-> entry]

\* OrderedEvent.ordering_key
ordering_key(e) ==
    LET seq == IF e.sequence_id # {} THEN CHOOSE x \in e.sequence_id : TRUE
               ELSE NoSequence
    IN  <<e.local_arrival_ts, seq, e.source_priority>>

\* the comparison of two keys, as tuples
key_lt(a, b) ==
    \/ a[1] < b[1]
    \/ a[1] = b[1] /\ a[2] < b[2]
    \/ a[1] = b[1] /\ a[2] = b[2] /\ a[3] < b[3]

\* the slip of a sort that is not stable: an event goes in front of the
\* events with its key
insert_unstable(sorted, e) ==
    LET k == Cardinality({i \in 1..Len(sorted) :
                 key_lt(ordering_key(sorted[i]), ordering_key(e))})
    IN  SubSeq(sorted, 1, k) \o <<e>> \o SubSeq(sorted, k + 1, Len(sorted))

\* the place of e in a sorted list: behind every event whose key is not above
insert(sorted, e) ==
    LET k == Cardinality({i \in 1..Len(sorted) :
                 ~key_lt(ordering_key(e), ordering_key(sorted[i]))})
    IN  SubSeq(sorted, 1, k) \o <<e>> \o SubSeq(sorted, k + 1, Len(sorted))

RECURSIVE sort(_)
\* list.sort(key=ordering_key): stable
sort(events) ==
    IF events = <<>> THEN <<>>
    ELSE insert(sort(SubSeq(events, 1, Len(events) - 1)), events[Len(events)])

RECURSIVE read_lines_skipping(_, _, _)
\* the loop with the slip of passing over a line that does not parse
read_lines_skipping(lines, n, events) ==
    IF n > Len(lines) THEN [raised |-> FALSE, events |-> events]
    ELSE IF strip(lines[n]) = "" \/ model_validate_json(lines[n]) = {}
    THEN read_lines_skipping(lines, n + 1, events)
    ELSE LET entry == CHOOSE x \in model_validate_json(lines[n]) : TRUE
         IN  read_lines_skipping(lines, n + 1,
                                 Append(events, OrderedEvent(Len(events), entry)))

RECURSIVE read_lines(_, _, _)
\* the loop of load over the lines from the n-th on: empty lines are passed
\* over, a line that does not parse raises
read_lines(lines, n, events) ==
    IF n > Len(lines) THEN [raised |-> FALSE, events |-> events]
    ELSE IF strip(lines[n]) = "" THEN read_lines(lines, n + 1, events)
    ELSE IF model_validate_json(lines[n]) = {}
    THEN [raised |-> TRUE, events |-> events]
    ELSE LET entry == CHOOSE x \in model_validate_json(lines[n]) : TRUE
         IN  read_lines(lines, n + 1,
                        Append(events, OrderedEvent(Len(events), entry)))

\* JournalReader.load: the events in replay order, or the error raised
load(lines) ==
    LET read == read_lines(lines, 1, <<>>)
    IN  IF read.raised THEN [raised |-> TRUE, events |-> <<>>]
        ELSE [raised |-> FALSE, events |-> sort(read.events)]

\* ------------------------------------------------------------ ReplayEngine
GapLimit == 5        \* more GAP events than this promote to DEGRADED
ChainLimit == 10     \* the length of a causal chain

\* the constructor with the slip of one state store for all engines
ReplayEngine_shared_state(config) ==
    [config |-> config,
     state |-> IF engines = <<>> THEN SimulatedStateStore ELSE engines[1].state,
     events |-> <<>>,
     hash_log |-> <<>>, causal_parent |-> {}, reference_hashes |-> <<>>,
     total_events |-> 0, processed |-> 0, pc |-> "constructed", verdict |-> {},
     earlier_runs |-> <<>>]

\* ReplayEngine.__init__: a state store of its own, no hash, no reference.
\* earlier_runs is no field of the code: it keeps what the earlier calls of run on
\* the engine have returned, the verdict and the hash log at the return.
ReplayEngine(config) ==
    [config |-> config, state |-> SimulatedStateStore, events |-> <<>>,
     hash_log |-> <<>>, causal_parent |-> {}, reference_hashes |-> <<>>,
     total_events |-> 0, processed |-> 0, pc |-> "constructed", verdict |-> {},
     earlier_runs |-> <<>>]

\* ReplayEngine.load_reference_hashes
load_reference_hashes(engine, reference) ==
    [engine EXCEPT !.reference_hashes = reference]

\* ReplayVerdict
ReplayVerdict(engine, status, events_processed, events_total, divergence) ==
    [status |-> status, events_processed |-> events_processed,
     events_total |-> events_total, config_hash |-> engine.config.config_hash,
     rng_seed |-> engine.config.rng_seed, divergence |-> divergence]

\* ReplayEngine._handle_execution_report: raised when filled_quantity is
\* no number (null), before anything is stored
_handle_execution_report(state, data) ==
    LET status == Get(data, "status", {})
        symbol == Get(data, "symbol", "")
        client_order_id == Get(data, "client_order_id", "")
        quantity == Get(data, "filled_quantity", {0})
        side == Get(data, "side", "BUY")
        filled_qty == IF quantity = {0} THEN Zero
                      ELSE Decimal(CHOOSE q \in quantity : TRUE)
        stored == [state EXCEPT !.orders = dict_set(@, client_order_id, data)]
        delta == IF side = "BUY" THEN filled_qty ELSE Negate(filled_qty)
    IN  IF quantity = {} THEN [raised |-> TRUE, state |-> state]
        ELSE IF status \in {"PARTIAL_FILL", "FILLED"}
        THEN [raised |-> FALSE,
              state |-> store_update_position(stored, symbol, delta)]
        ELSE [raised |-> FALSE, state |-> stored]

\* ReplayEngine._handle_packet
_handle_packet(state, data) ==
    IF "status" \in DOMAIN data /\ Get(data, "source", None) = "execution_report"
    THEN _handle_execution_report(state, data)
    ELSE [raised |-> FALSE, state |-> state]

\* ReplayEngine._handle_status_change
_handle_status_change(state, data) ==
    [state EXCEPT !.system_status = Get(data, "status", "CONNECTED")]

\* _handle_gap with the slip of degrading at the limit already
_handle_gap_at_limit(state, data) ==
    LET counted == [state EXCEPT !.gap_count = @ + 1]
    IN  IF counted.gap_count >= GapLimit
        THEN [counted EXCEPT !.system_status = "DEGRADED"]
        ELSE counted

\* ReplayEngine._handle_gap
_handle_gap(state, data) ==
    LET counted == [state EXCEPT !.gap_count = @ + 1]
    IN  IF counted.gap_count > GapLimit
        THEN [counted EXCEPT !.system_status = "DEGRADED"]
        ELSE counted

\* ReplayEngine._handle_error
_handle_error(state, data) ==
    IF Get(data, "error_type", "") = "CRITICAL"
    THEN [state EXCEPT !.system_status = "HALT"]
    ELSE state

\* ReplayEngine._process_single_event: the state afterwards, or the error
_process_single_event(state, ordered_event) ==
    LET event == ordered_event.event
        data == event.data
        handled ==
            IF event.event_type = "PACKET" THEN _handle_packet(state, data)
            ELSE [raised |-> FALSE,
                  state |-> IF event.event_type = "STATUS_CHANGE"
                            THEN _handle_status_change(state, data)
                            ELSE IF event.event_type = "GAP"
                            THEN _handle_gap(state, data)
                            ELSE _handle_error(state, data)]
    IN  IF handled.raised THEN handled
        ELSE [raised |-> FALSE,
              state |-> [handled.state EXCEPT !.last_seen_ts = event.timestamp]]

\* ReplayEngine._build_causal_chain: the indices before current_index, at
\* most ChainLimit of them, ascending
_build_causal_chain(current_index) ==
    LET length == Min(ChainLimit, current_index)
    IN  [n \in 1..length |-> current_index - length + n - 1]

\* DivergencePoint
DivergencePoint(ordered_event, expected, state_hash) ==
    [event_index |-> ordered_event.index, expected_hash |-> expected,
     actual_hash |-> state_hash, event_data |-> ordered_event.event.data,
     causal_chain |-> _build_causal_chain(ordered_event.index)]

\* ReplayEngine.run up to the loop: the journal is loaded
run_load(engine, lines) ==
    LET loaded == load(lines)
    IN  IF loaded.raised
        THEN [engine EXCEPT !.pc = "returned",
                            !.verdict = {ReplayVerdict(engine, "ERROR", 0, 0, {})}]
        ELSE [engine EXCEPT !.pc = "loop", !.events = loaded.events,
                            !.total_events = Len(loaded.events)]

\* the turn with the slip of going on after a hash that differs
run_step_lenient(engine) ==
    LET ordered_event == engine.events[engine.processed + 1]
        applied == _process_single_event(engine.state, ordered_event)
        state_hash == get_state_hash(applied.state)
    IN  IF applied.raised
        THEN [engine EXCEPT !.pc = "returned",
                 !.verdict = {ReplayVerdict(engine, "ERROR", engine.processed,
                                            engine.total_events, {})}]
        ELSE [engine EXCEPT !.state = applied.state,
                 !.hash_log = (ordered_event.index :> state_hash) @@ @,
                 !.causal_parent = {ordered_event.index},
                 !.processed = @ + 1]

\* the turn with the slip of counting the event before its hash is verified
run_step_counts_first(engine) ==
    LET ordered_event == engine.events[engine.processed + 1]
        applied == _process_single_event(engine.state, ordered_event)
        state_hash == get_state_hash(applied.state)
        hashed == [engine EXCEPT !.state = applied.state,
                      !.hash_log = (ordered_event.index :> state_hash) @@ @,
                      !.processed = @ + 1]
        expected == engine.reference_hashes[ordered_event.index]
    IN  IF applied.raised
        THEN [engine EXCEPT !.pc = "returned",
                 !.verdict = {ReplayVerdict(engine, "ERROR", engine.processed,
                                            engine.total_events, {})}]
        ELSE IF /\ ordered_event.index \in DOMAIN engine.reference_hashes
                /\ state_hash # expected
        THEN [hashed EXCEPT !.pc = "returned",
                 !.verdict = {ReplayVerdict(engine, "FAIL", hashed.processed,
                                 engine.total_events,
                                 {DivergencePoint(ordered_event, expected,
                                                  state_hash)})}]
        ELSE [hashed EXCEPT !.causal_parent = {ordered_event.index}]

\* ReplayEngine.run, one turn of the loop: the next event is applied, the
\* state is hashed, the hash is compared with the reference for its index
run_step(engine) ==
    LET ordered_event == engine.events[engine.processed + 1]
        applied == _process_single_event(engine.state, ordered_event)
        state_hash == get_state_hash(applied.state)
        hashed == [engine EXCEPT !.state = applied.state,
                      !.hash_log = (ordered_event.index :> state_hash) @@ @]
        expected == engine.reference_hashes[ordered_event.index]
    IN  IF applied.raised
        THEN [engine EXCEPT !.pc = "returned",
                 !.verdict = {ReplayVerdict(engine, "ERROR", engine.processed,
                                            engine.total_events, {})}]
        ELSE IF /\ ordered_event.index \in DOMAIN engine.reference_hashes
                /\ state_hash # expected
        THEN [hashed EXCEPT !.pc = "returned",
                 !.verdict = {ReplayVerdict(engine, "FAIL", engine.processed,
                                 engine.total_events,
                                 {DivergencePoint(ordered_event, expected,
                                                  state_hash)})}]
        ELSE [hashed EXCEPT !.causal_parent = {ordered_event.index},
                            !.processed = @ + 1]

\* ReplayEngine.run after the loop
run_return(engine) ==
    [engine EXCEPT !.pc = "returned",
        !.verdict = {ReplayVerdict(engine, "PASS", engine.processed,
                                   engine.total_events, {})}]

RECURSIVE run_loop(_)
\* the loop of run to its end
run_loop(engine) ==
    IF engine.pc = "returned" THEN engine
    ELSE IF engine.processed < Len(engine.events)
    THEN run_loop(run_step(engine))
    ELSE run_return(engine)

\* ReplayEngine.run
run(engine, lines) == run_loop(run_load(engine, lines))

\* ReplayEngine.run is called on an engine whose run has returned: the count
\* of processed events is a local of run and starts at 0; the state store,
\* the hash log and the causal parent are fields that __init__ has set and
\* run does not set again
run_again(engine) ==
    [engine EXCEPT !.pc = "constructed", !.processed = 0, !.verdict = {},
        !.earlier_runs = Append(@, [verdict |-> engine.verdict,
                                    hash_log |-> engine.hash_log])]

\* SimulatorConfig, as the simulator's entry point and its tests build it
SimulatorConfig(path) ==
    [config_hash |-> "test", rng_seed |-> 42, journal_path |-> path]

\* the variables the simulator never touches
worldvars == <<gkvars, now, redis_observer, bucketvars, obsvars>>

\* engine i is constructed on the journal at path; a reference hash log is
\* loaded into it when there is one
construct(i, path, reference) ==
    /\ i \notin DOMAIN engines
    /\ path \in DOMAIN files
    /\ engines' = (i :> load_reference_hashes(ReplayEngine(SimulatorConfig(path)),
                                              reference)) @@ engines
    /\ UNCHANGED <<worldvars, files>>

\* run on engine i, up to the loop
engine_load(i) ==
    /\ i \in DOMAIN engines
    /\ engines[i].pc = "constructed"
    /\ engines' = [engines EXCEPT
                     ![i] = run_load(@, files[@.config.journal_path])]
    /\ UNCHANGED <<worldvars, files>>

\* run on engine i, one turn of the loop
engine_step(i) ==
    /\ i \in DOMAIN engines
    /\ engines[i].pc = "loop"
    /\ engines[i].processed < Len(engines[i].events)
    /\ engines' = [engines EXCEPT ![i] = run_step(@)]
    /\ UNCHANGED <<worldvars, files>>

\* run on engine i, after the loop
engine_return(i) ==
    /\ i \in DOMAIN engines
    /\ engines[i].pc = "loop"
    /\ engines[i].processed = Len(engines[i].events)
    /\ engines' = [engines EXCEPT ![i] = run_return(@)]
    /\ UNCHANGED <<worldvars, files>>

\* run is called again on engine i
engine_run_again(i) ==
    /\ i \in DOMAIN engines
    /\ engines[i].pc = "returned"
    /\ Len(engines[i].earlier_runs) + 1 < MaxRuns
    /\ engines' = [engines EXCEPT ![i] = run_again(@)]
    /\ UNCHANGED <<worldvars, files>>

\* ------------------------------------------------------------ behaviours
\* the Gatekeeper after construction, on an empty redis
InitGatekeeper ==
    /\ registry = <<>>
    /\ in_safe_mode = FALSE
    /\ tokens = capacity
    /\ last_update_ts = 0
    /\ now = 0
    /\ redis_observer = <<>>
    /\ positions = <<>>
    /\ orders = <<>>
    /\ processed = <<>>
    /\ ret = [op |-> "init", arg |-> None, result |-> None, reason |-> NoReason,
              log |-> <<>>, compared |-> <<>>]
    /\ threads = <<>>

\* a TokenBucket(r, cap) constructed at the clock reading 0
InitBucket(r, cap) ==
    /\ bucket = TokenBucket(r, cap, 0)
    /\ calls = <<>>

\* ObserverSystem.__init__, ObserverState.__init__ and RawJournal.__init__
\* on a new journal file; no task has been created yet
InitObserver ==
    /\ running = TRUE
    /\ packet_queue = <<>>
    /\ sequence_tracker = <<>>
    /\ journal = <<>>
    /\ journal_file = "open"
    /\ drift_samples = <<>>
    /\ gap_count = 0
    /\ start_pc = "init"
    /\ ingest_pc = [e \in Exchanges |-> "idle"]
    /\ process_pc = "idle"
    /\ shutdown_pc = "idle"
    /\ closed = {}
    /\ ignored = FALSE
    /\ arrivals = 0
    /\ taken = <<>>
    /\ offered = <<>>

\* no journal file is there for a simulator, no ReplayEngine exists
InitSimulator ==
    /\ files = <<>>
    /\ engines = <<>>

Init == InitGatekeeper /\ InitBucket(rate, capacity) /\ InitObserver /\ InitSimulator

\* ------------------------------------------------------------ inputs
\* the exchange snapshots handed to reconcile: dicts of at most two symbols,
\* in both insertion orders
Snapshots(syms, qtys) ==
    {<<>>} \cup {<<<<s, q>>>> : s \in syms, q \in qtys}
           \cup UNION {{<<<<s1, q1>>, <<s2, q2>>>> : s2 \in syms \ {s1},
                                                    q1 \in qtys, q2 \in qtys}
                       : s1 \in syms}

\* fills of either side and quantity; reports that are not fills
FillReports(qtys) ==
    {ExecutionReport(c, sd, st, q) :
        c \in CoreCloids, sd \in Sides, st \in {"PARTIAL_FILL", "FILLED"}, q \in qtys}
OtherReports ==
    {ExecutionReport(c, "BUY", st, 1) :
        c \in CoreCloids, st \in {"NEW", "CANCELED", "REJECTED"}}

CoreIntents == {OrderIntent(c, q) : c \in CoreCloids, q \in {1, 2}}

\* --- Spec: the Gatekeeper with all its entry points, on few inputs
Submit == \E i \in CoreIntents : submit_intent(i, 0)
Report == \E r \in {ExecutionReport(c, "BUY", st, 1) :
                        c \in CoreCloids, st \in {"NEW", "FILLED"}} :
              process_execution_report(r)
Reconcile == \E snap \in Snapshots({"X"}, {0, 3}) : reconcile(snap)
OperatorSafeMode == enter_safe_mode("operator")
ObserverStatus == \E s \in {"CONNECTED", "HALT"} : set_system_status(s)
Time == Tick(HeartbeatTolerance + 1)

Next == Submit \/ Report \/ Reconcile \/ OperatorSafeMode \/ ObserverStatus \/ Time

Spec == Init /\ [][Next]_vars

\* --- SpecGuard: submissions against the guard, with a burst of fresh client
\* order ids, submitted back to back while the guard lets them through, that
\* drains the token bucket
BurstCloids == Cloids \ CoreCloids
GuardOpen ==
    /\ ~in_safe_mode
    /\ "observer:status" \in DOMAIN redis_observer
    /\ redis_observer["observer:status"] = "CONNECTED"
    /\ now - redis_observer["observer:last_update"] <= HeartbeatTolerance
BurstRunning ==
    /\ BurstCloids \cap DOMAIN registry # {}
    /\ ~(BurstCloids \subseteq DOMAIN registry)

GuardSubmit ==
    /\ ~BurstRunning
    /\ \E i \in CoreIntents, d \in ClockJitter : submit_intent(i, d)
Burst ==
    /\ GuardOpen
    /\ \E c \in BurstCloids :
        /\ c \notin DOMAIN registry
        /\ \A b \in BurstCloids : b < c => b \in DOMAIN registry
        /\ submit_intent(OrderIntent(c, 1), 0)
GuardSafeMode == ~BurstRunning /\ enter_safe_mode("operator")
GuardStatus == ~BurstRunning /\ \E s \in ObserverStatuses : set_system_status(s)
GuardTime == ~BurstRunning /\ \E d \in TickDeltas : Tick(d)

NextGuard == GuardSubmit \/ Burst \/ GuardSafeMode \/ GuardStatus \/ GuardTime

SpecGuard == Init /\ [][NextGuard]_vars

\* --- SpecLedger: execution reports and reconciliation cycles
LedgerReport == \E r \in FillReports(FillQtys) \cup OtherReports :
                    process_execution_report(r)
LedgerReconcile == \E snap \in Snapshots(Symbols, SnapQtys) : reconcile(snap)

NextLedger == LedgerReport \/ LedgerReconcile \/ OperatorSafeMode

SpecLedger == Init /\ [][NextLedger]_vars

\* ------------------------------------------------------------ SpecBucket
\* A TokenBucket on its own.  Two buckets are run: TokenBucket(10, 2) under
\* consumes of one and two tokens at clock readings 50 ms apart, and
\* TokenBucket(10, 10), the bucket of test_rate_limiter, under consume(1)
\* at clock readings half a second apart.  On these inputs the program's
\* floating-point tokens are exact.
BucketRuns ==
    {[rate |-> 10, capacity |-> 2 * OneToken,
      amounts |-> {OneToken, 2 * OneToken}, ticks |-> {50000, 100000},
      horizon |-> 300000, calls |-> MaxCalls],
     [rate |-> 10, capacity |-> 10 * OneToken,
      amounts |-> {OneToken}, ticks |-> {500000},
      horizon |-> 1500000, calls |-> MaxScenarioCalls]}

BucketRun == CHOOSE r \in BucketRuns : r.capacity = bucket.capacity

InitSpecBucket ==
    /\ InitGatekeeper
    /\ InitObserver
    /\ InitSimulator
    /\ \E r \in BucketRuns : InitBucket(r.rate, r.capacity)

BucketConsume ==
    /\ Len(calls) < BucketRun.calls
    /\ \E k \in BucketRun.amounts : bucket_consume(k)

BucketTime == \E d \in BucketRun.ticks : now + d <= BucketRun.horizon /\ Tick(d)

NextBucket == BucketConsume \/ BucketTime

SpecBucket == InitSpecBucket /\ [][NextBucket]_vars

\* ------------------------------------------------------------ SpecPipeline
\* The Observer with one BinanceObserver per symbol, while it runs: the
\* ingestors and the processor.  The first stream carries sequence ids with
\* and without gaps and drifts on either side of the limit; the second one
\* is there as another key.
PipelinePackets(n) ==
    {Packet(n, "BTC/USDT", {x}, 0) : x \in {1, 2, 5}}
        \cup {Packet(n, "BTC/USDT", {5}, 2000000), Packet(n, "ETH/USDT", {1}, 0)}

ObserverStart == start
PipelineIngest ==
    /\ arrivals < MaxPackets
    /\ \E e \in Exchanges : \E packet \in PipelinePackets(arrivals + 1) :
         _ingest_loop(e, packet)
Process == _process_loop

NextPipeline == ObserverStart \/ PipelineIngest \/ Process

\* the event loop runs the processor whenever a packet is waiting for it
SpecPipeline == Init /\ [][NextPipeline]_vars /\ WF_vars(Process)

\* ------------------------------------------------------------ SpecObserver
\* The whole life of the Observer: startup, packets, a stream that fails,
\* signals, shutdown.
Packets(n) ==
    {Packet(n, "BTC/USDT", {1}, 0), Packet(n, "BTC/USDT", {5}, 0),
     Packet(n, "BTC/USDT", {1}, 2000000), Packet(n, "ETH/USDT", {1}, 0)}

Ingest ==
    /\ arrivals < MaxPackets
    /\ \E e \in Exchanges : \E packet \in Packets(arrivals + 1) :
         _ingest_loop(e, packet)
StreamFailure == \E e \in Exchanges : stream_failure(e)
StartExcept == start_except
Signal == shutdown("SIGINT")
ShutdownResume == shutdown_resume

NextObserver ==
    \/ ObserverStart \/ Ingest \/ Process \/ StreamFailure \/ StartExcept
    \/ Signal \/ ShutdownResume

\* the event loop resumes start once gather has raised
SpecObserver == Init /\ [][NextObserver]_vars /\ WF_vars(StartExcept)

\* ------------------------------------------------------------ SpecShutdown
\* The whole life of the Observer, with an event loop that also resumes
\* shutdown once the close() of an exchange has returned.
SpecShutdown ==
    Init /\ [][NextObserver]_vars /\ WF_vars(StartExcept) /\ WF_vars(ShutdownResume)

\* ------------------------------------------------------------ SpecDrift
\* The drift window on its own.  The n-th sample offered is n, so that the
\* samples of a window tell their arrival; the first three may also lie
\* beyond the limit.
Samples(n) == IF n <= 3 THEN {n, 600000 + n} ELSE {n}

Offer ==
    /\ Len(offered) < MaxSamples
    /\ \E d \in Samples(Len(offered) + 1) : offer(d)

NextDrift == Offer

SpecDrift == Init /\ [][NextDrift]_vars

\* ------------------------------------------------------------ SpecReplay
\* The simulator on a journal file of at most MaxLines lines: a first run
\* on a new ReplayEngine and, once it has returned, a second run on another
\* new ReplayEngine, without a reference or with one made from the hash log
\* of the first.  The lines: empty, no JSON, an event type that is none,
\* a status change, a gap, an execution report, an execution report whose
\* quantity is null.  All carry one timestamp, so that the replay order is
\* the file order.
ReportData(c, sd, st, quantity) ==
    [source |-> "execution_report", client_order_id |-> c,
     symbol |-> SymbolOf(c), side |-> sd, status |-> st,
     filled_quantity |-> quantity]

ReplayLines ==
    {[text |-> ""], [text |-> "{"],
     Line("HEARTBEAT", 7, <<>>),
     Line("STATUS_CHANGE", 7, [status |-> "DEGRADED"]),
     Line("GAP", 7, [source |-> "binance_ccxt:BTC/USDT", expected |-> 3, got |-> 5]),
     Line("PACKET", 7, ReportData(1, "BUY", "FILLED", {5})),
     Line("PACKET", 7, ReportData(1, "BUY", "FILLED", {}))}

\* the files of at most n lines
Journals(lines, n) == UNION {[1..k -> lines] : k \in 0..n}

\* a hash that no state has
StaleHash == [positions |-> <<>>, orders |-> <<>>, system_status |-> "STALE",
          gap_count |-> 0]

\* the reference hash logs made from a hash log: at most stale of its
\* hashes are replaced, at most missing of its indices are left out
References(log, stale, missing) ==
    {<<>>} \cup
    {[x \in DOMAIN log \ M |-> IF x \in S THEN StaleHash ELSE log[x]] :
        S \in {S \in SUBSET DOMAIN log : Cardinality(S) <= stale},
        M \in {M \in SUBSET DOMAIN log : Cardinality(M) <= missing}}

InitReplay(journals) ==
    /\ InitGatekeeper
    /\ InitBucket(rate, capacity)
    /\ InitObserver
    /\ engines = <<>>
    /\ \E lines \in journals : files = ("journal.jsonl" :> lines)

FirstRun == construct(1, "journal.jsonl", <<>>)
SecondRun ==
    /\ DOMAIN engines = {1}
    /\ engines[1].pc = "returned"
    /\ \E reference \in References(engines[1].hash_log, 1, 0) :
         construct(2, "journal.jsonl", reference)
RunLoad == \E i \in DOMAIN engines : engine_load(i)
RunStep == \E i \in DOMAIN engines : engine_step(i)
RunReturn == \E i \in DOMAIN engines : engine_return(i)

NextReplay == FirstRun \/ SecondRun \/ RunLoad \/ RunStep \/ RunReturn

SpecReplay == InitReplay(Journals(ReplayLines, MaxLines)) /\ [][NextReplay]_vars

\* ------------------------------------------------------------ SpecChain
\* The simulator on a journal of MaxChain GAP events, replayed once without
\* a reference and once against a reference made from the hash log of the
\* first run, with up to two stale hashes and up to one index left out.
\* The timestamps ascend with the lines, or descend, so that the replay
\* order is the file order or its reverse.
ChainLine(n, timestamp) ==
    Line("GAP", timestamp,
         [source |-> "binance_ccxt:BTC/USDT", expected |-> n, got |-> n + 1])

ChainJournals ==
    {[n \in 1..MaxChain |-> ChainLine(n, n)],
     [n \in 1..MaxChain |-> ChainLine(n, MaxChain + 1 - n)]}

ChainSecondRun ==
    /\ DOMAIN engines = {1}
    /\ engines[1].pc = "returned"
    /\ \E reference \in References(engines[1].hash_log, 2, 1) :
         construct(2, "journal.jsonl", reference)

NextChain == FirstRun \/ ChainSecondRun \/ RunLoad \/ RunStep \/ RunReturn

SpecChain == InitReplay(ChainJournals) /\ [][NextChain]_vars

\* ------------------------------------------------------------ SpecOrdering
\* The simulator on journals whose events differ in timestamp, sequence id
\* and source: two WS sources with one sequence id (equal keys), a REST
\* source, a WS packet with a higher sequence id, one without sequence id,
\* a status change (no source, no sequence id), and an earlier event of a
\* source that is not listed; and an empty line.
OrderingLines ==
    {[text |-> " "],
     Line("PACKET", 2, [source |-> "binance_ws", sequence_id |-> {1}]),
     Line("PACKET", 2, [source |-> "kite_ws", sequence_id |-> {1}]),
     Line("PACKET", 2, [source |-> "binance_rest", sequence_id |-> {1}]),
     Line("PACKET", 2, [source |-> "binance_ws", sequence_id |-> {2}]),
     Line("PACKET", 2, [source |-> "binance_ws", sequence_id |-> {}]),
     Line("STATUS_CHANGE", 2, [status |-> "HALT"]),
     Line("PACKET", 1, [source |-> "coinbase_ws", sequence_id |-> {}])}

NextOrdering == FirstRun \/ RunLoad \/ RunStep \/ RunReturn

SpecOrdering == InitReplay(Journals(OrderingLines, MaxLines)) /\ [][NextOrdering]_vars

\* ------------------------------------------------------------ SpecHasher
\* Two journal files of execution reports, each replayed by a ReplayEngine
\* of its own: the same fills arrive in different orders and in different
\* pieces, so that the two state stores are filled differently.
HasherLines ==
    {Line("PACKET", 7, ReportData(1, "BUY", "FILLED", {5})),
     Line("PACKET", 7, ReportData(1, "SELL", "FILLED", {5})),
     Line("PACKET", 7, ReportData(1, "BUY", "FILLED", {10})),
     Line("PACKET", 7, ReportData(2, "BUY", "FILLED", {5}))}

InitHasher ==
    /\ InitGatekeeper
    /\ InitBucket(rate, capacity)
    /\ InitObserver
    /\ engines = <<>>
    /\ \E lines \in Journals(HasherLines, MaxLines) :
         \E others \in Journals(HasherLines, MaxLines - 1) :
            files = ("journal.jsonl" :> lines) @@ ("other.jsonl" :> others)

OtherRun ==
    /\ DOMAIN engines = {1}
    /\ engines[1].pc = "returned"
    /\ construct(2, "other.jsonl", <<>>)

NextHasher == FirstRun \/ OtherRun \/ RunLoad \/ RunStep \/ RunReturn

SpecHasher == InitHasher /\ [][NextHasher]_vars

\* ------------------------------------------------------------ SpecMirror
\* The Gatekeeper processes execution reports; the reports processed so far
\* are then written, in their order, as the PACKET lines of a journal, which
\* a ReplayEngine replays.  Line n carries timestamp n, so that the replay
\* order is the order of the reports.
Embedded(report) ==
    [source |-> "execution_report", client_order_id |-> report.client_order_id,
     symbol |-> report.symbol, side |-> report.side, status |-> report.status,
     filled_quantity |-> {report.filled_quantity}]

MirrorReport == files = <<>> /\ LedgerReport
Embed ==
    /\ files = <<>>
    /\ processed # <<>>
    /\ files' = ("journal.jsonl" :>
                    [n \in 1..Len(processed) |->
                        Line("PACKET", n, Embedded(processed[n]))])
    /\ UNCHANGED <<worldvars, engines>>

NextMirror == MirrorReport \/ Embed \/ FirstRun \/ RunLoad \/ RunStep \/ RunReturn

SpecMirror == Init /\ [][NextMirror]_vars

\* ------------------------------------------------------------ SpecSession
\* One Observer session and the replay of the journal it wrote.  The stream
\* of BTC/USDT yields at most MaxSession packets, each after the one before
\* it has been processed; their sequence ids run with and without gaps, and
\* the first may arrive with a drift beyond the limit.  The journal is then
\* read as a file by a ReplayEngine.  The entries carry the readings of the
\* epoch clock, which does not run backwards during the session: with grain
\* 1 every entry has an instant of its own, with grain 2 two entries in a
\* row share one.
SessionPackets(n) ==
    {Packet(n, "BTC/USDT", {x}, d) :
        x \in {2 * n - 1, 2 * n}, d \in IF n = 1 THEN {0, 2000000} ELSE {0}}

SessionStart == files = <<>> /\ start
SessionIngest ==
    /\ files = <<>>
    /\ arrivals < MaxSession
    /\ packet_queue = <<>>
    /\ \E e \in Exchanges : \E packet \in SessionPackets(arrivals + 1) :
         _ingest_loop(e, packet)
SessionProcess == files = <<>> /\ _process_loop
SessionJournal ==
    /\ files = <<>>
    /\ journal # <<>>
    /\ \E grain \in {1, 2} :
         files' = ("journal.jsonl" :>
                     [n \in 1..Len(journal) |->
                         Line(journal[n].event_type, (n + grain - 1) \div grain,
                              journal[n].data)])
    /\ UNCHANGED <<worldvars, engines>>

NextSession ==
    \/ SessionStart \/ SessionIngest \/ SessionProcess \/ SessionJournal
    \/ FirstRun \/ RunLoad \/ RunStep \/ RunReturn

SpecSession == Init /\ [][NextSession]_vars

\* ------------------------------------------------------------ SpecEvents
\* The simulator on journals of every kind of event: up to GapLimit GAP
\* lines, then at most MaxLines lines that are a gap, an error that is
\* critical and one that is not, a status change to HALT and one to DEGRADED,
\* a packet of the Observer and a packet that embeds an execution report.
EventLines ==
    {Line("GAP", 7, [source |-> "binance_ccxt:BTC/USDT", expected |-> 3, got |-> 5]),
     Line("ERROR", 7, [error_type |-> "CRITICAL"]),
     Line("ERROR", 7, [error_type |-> "WARNING"]),
     Line("STATUS_CHANGE", 7, [status |-> "HALT"]),
     Line("STATUS_CHANGE", 7, [status |-> "DEGRADED"]),
     Line("PACKET", 7, Packet(7, "BTC/USDT", {}, 0)),
     Line("PACKET", 7, ReportData(1, "BUY", "FILLED", {5}))}

EventJournals ==
    {[n \in 1..gaps |-> Line("GAP", 7, [source |-> "binance_ccxt:BTC/USDT",
                                       expected |-> 3, got |-> 5])] \o lines :
        gaps \in 0..GapLimit, lines \in Journals(EventLines, MaxLines)}

NextEvents == FirstRun \/ RunLoad \/ RunStep \/ RunReturn

SpecEvents == InitReplay(EventJournals) /\ [][NextEvents]_vars

\* ------------------------------------------------------------ SpecRerun
\* The simulator on a journal file of at most MaxLines lines, with one
\* ReplayEngine on which run is called up to MaxRuns times, the journal left
\* as it is.
RunAgain == \E i \in DOMAIN engines : engine_run_again(i)

NextRerun == FirstRun \/ RunLoad \/ RunStep \/ RunReturn \/ RunAgain

SpecRerun == InitReplay(Journals(ReplayLines, MaxLines)) /\ [][NextRerun]_vars

\* ------------------------------------------------------------ SpecHeartbeat
\* The Observer and the Gatekeeper side by side on one clock.  The stream
\* yields a packet at every instant the clock shows, stamped with the clock
\* reading, and the processor takes it before time passes; the clock moves
\* on by about a second at a time; intents are submitted at any instant.
BeatDeltas == {1000000, 1000001}

\* a packet has been processed at the instant the clock shows
Alive == taken # <<>> /\ taken[Len(taken)].local_arrival_ts = now

HeartbeatStart == start
HeartbeatIngest ==
    /\ packet_queue = <<>>
    /\ ~Alive
    /\ \E gap \in {1, 2} :
         _ingest_loop("BTC/USDT", Packet(now, "BTC/USDT", {arrivals + gap}, 0))
HeartbeatProcess == _process_loop
HeartbeatTime == Alive /\ \E d \in BeatDeltas : Tick(d)
HeartbeatSubmit == \E i \in CoreIntents : submit_intent(i, 0)

NextHeartbeat ==
    \/ HeartbeatStart \/ HeartbeatIngest \/ HeartbeatProcess \/ HeartbeatTime
    \/ HeartbeatSubmit

SpecHeartbeat == Init /\ [][NextHeartbeat]_vars

\* ------------------------------------------------------------ threads
\* The Gatekeeper called from several threads.  Nothing in the Gatekeeper
\* takes a lock, so a thread can be switched out between two statements;
\* a step of a thread is one access to the state the threads share (a redis
\* command, a read or a write of an attribute).  threads[t] is the frame of
\* the call thread t is in: the operation, the place in it, its arguments and
\* its local variables.
Threads == 1..MaxThreads

\* thread t enters a call
thread_call(t, frame) ==
    /\ t \notin DOMAIN threads
    /\ \A u \in Threads : u < t => u \in DOMAIN threads
    /\ threads' = (t :> frame) @@ threads

\* Gatekeeper.process_execution_report(report) is called on thread t
call_process_execution_report(t, report) ==
    /\ thread_call(t, [op |-> "process_execution_report",
                       pc |-> "_update_order_state", report |-> report])
    /\ UNCHANGED <<bucketvars, obsvars, simvars, registry, in_safe_mode, tokens,
                   last_update_ts, now, redis_observer, positions, orders,
                   processed, ret>>

\* StateController._update_order_state on thread t: redis SET
thread_update_order_state(t) ==
    /\ t \in DOMAIN threads
    /\ threads[t].pc = "_update_order_state"
    /\ orders' = update_order_state(orders, threads[t].report)
    /\ processed' = Append(processed, threads[t].report)
    /\ threads' = [threads EXCEPT ![t].pc =
                      IF threads[t].report.status \in {"PARTIAL_FILL", "FILLED"}
                      THEN "_update_position" ELSE "return"]
    /\ UNCHANGED <<bucketvars, obsvars, simvars, registry, in_safe_mode, tokens,
                   last_update_ts, now, redis_observer, positions, ret>>

\* StateController._update_position on thread t: redis INCRBYFLOAT
thread_update_position(t) ==
    /\ t \in DOMAIN threads
    /\ threads[t].pc = "_update_position"
    /\ positions' = update_position(positions, threads[t].report)
    /\ threads' = [threads EXCEPT ![t].pc = "return"]
    /\ UNCHANGED <<bucketvars, obsvars, simvars, registry, in_safe_mode, tokens,
                   last_update_ts, now, redis_observer, orders, processed, ret>>

\* ReconciliationEngine.reconcile(exchange_snapshot) is called on thread t
call_reconcile(t, exchange_snapshot) ==
    /\ thread_call(t, [op |-> "reconcile", pc |-> "for",
                       exchange_snapshot |-> exchange_snapshot, i |-> 1])
    /\ UNCHANGED <<bucketvars, obsvars, simvars, registry, in_safe_mode, tokens,
                   last_update_ts, now, redis_observer, positions, orders,
                   processed, ret>>

\* one turn of the for loop of reconcile on thread t: get_position is a
\* redis GET; the loop ends after the last item and at the first drift
thread_reconcile(t) ==
    /\ t \in DOMAIN threads
    /\ threads[t].pc = "for"
    /\ LET snapshot == threads[t].exchange_snapshot
           i == threads[t].i
       IN  IF i > Len(snapshot)
           THEN /\ threads' = [threads EXCEPT ![t].pc = "return"]
                /\ UNCHANGED in_safe_mode
           ELSE LET internal_qty == get_position(positions, snapshot[i][1])
                    exchange_qty == snapshot[i][2]
                IN  IF Abs(FloatRound(internal_qty - exchange_qty)) > Epsilon
                    THEN /\ in_safe_mode' = TRUE
                         /\ threads' = [threads EXCEPT ![t].pc = "return"]
                    ELSE /\ threads' = [threads EXCEPT ![t].i = i + 1]
                         /\ UNCHANGED in_safe_mode
    /\ UNCHANGED <<bucketvars, obsvars, simvars, registry, tokens, last_update_ts,
                   now, redis_observer, positions, orders, processed, ret>>

\* Gatekeeper.submit_intent(intent) is called on thread t
call_submit_intent(t, intent) ==
    /\ thread_call(t, [op |-> "submit_intent", pc |-> "register",
                       intent |-> intent, result |-> None])
    /\ UNCHANGED <<bucketvars, obsvars, simvars, registry, in_safe_mode, tokens,
                   last_update_ts, now, redis_observer, positions, orders,
                   processed, ret>>

\* CommandRegistry.register on thread t, the membership test: a duplicate
\* returns at once
thread_register(t) ==
    /\ t \in DOMAIN threads
    /\ threads[t].pc = "register"
    /\ threads' = IF threads[t].intent.client_order_id \in DOMAIN registry
                  THEN [threads EXCEPT ![t].pc = "return",
                                       ![t].result = "DUPLICATE"]
                  ELSE [threads EXCEPT ![t].pc = "store"]
    /\ UNCHANGED <<bucketvars, obsvars, simvars, registry, in_safe_mode, tokens,
                   last_update_ts, now, redis_observer, positions, orders,
                   processed, ret>>

\* CommandRegistry.register on thread t, the assignment to _orders
thread_store(t) ==
    /\ t \in DOMAIN threads
    /\ threads[t].pc = "store"
    /\ registry' = (threads[t].intent.client_order_id :> threads[t].intent)
                       @@ registry
    /\ threads' = [threads EXCEPT ![t].pc = "validate_intent"]
    /\ UNCHANGED <<bucketvars, obsvars, simvars, in_safe_mode, tokens,
                   last_update_ts, now, redis_observer, positions, orders,
                   processed, ret>>

\* ExecutionGuard.validate_intent on thread t, and the return of
\* submit_intent
thread_validate_intent(t) ==
    LET v == validate_intent(now_us(0), now_us(0))
    IN  /\ t \in DOMAIN threads
        /\ threads[t].pc = "validate_intent"
        /\ tokens' = v.tokens
        /\ last_update_ts' = v.last_update_ts
        /\ threads' = [threads EXCEPT ![t].pc = "return",
                          ![t].result = IF v.ok THEN "ACCEPTED" ELSE "HARD_BLOCK"]
        /\ UNCHANGED <<bucketvars, obsvars, simvars, registry, in_safe_mode, now,
                       redis_observer, positions, orders, processed, ret>>

\* bucket.consume(k) is called on thread t
call_consume(t, k) ==
    /\ thread_call(t, [op |-> "consume", pc |-> "refill", tokens |-> k,
                       result |-> None])
    /\ UNCHANGED <<bucketvars, obsvars, simvars, registry, in_safe_mode, tokens,
                   last_update_ts, now, redis_observer, positions, orders,
                   processed, ret>>

\* TokenBucket.consume on thread t, the refill: the clock is read, tokens and
\* last_update_ts are assigned
thread_refill(t) ==
    LET new_tokens == (now_us(0) - bucket.last_update_ts) * bucket.rate
    IN  /\ t \in DOMAIN threads
        /\ threads[t].pc = "refill"
        /\ bucket' = [bucket EXCEPT
                        !.tokens = Min(bucket.capacity, bucket.tokens + new_tokens),
                        !.last_update_ts = now_us(0)]
        /\ threads' = [threads EXCEPT ![t].pc = "if"]
        /\ UNCHANGED <<calls, obsvars, simvars, registry, in_safe_mode, tokens,
                       last_update_ts, now, redis_observer, positions, orders,
                       processed, ret>>

\* TokenBucket.consume on thread t, the test self.tokens >= tokens
thread_if(t) ==
    /\ t \in DOMAIN threads
    /\ threads[t].pc = "if"
    /\ threads' = IF bucket.tokens >= threads[t].tokens
                  THEN [threads EXCEPT ![t].pc = "deduct"]
                  ELSE [threads EXCEPT ![t].pc = "return", ![t].result = "False"]
    /\ UNCHANGED <<bucketvars, obsvars, simvars, registry, in_safe_mode, tokens,
                   last_update_ts, now, redis_observer, positions, orders,
                   processed, ret>>

\* TokenBucket.consume on thread t, self.tokens -= tokens and return True
thread_deduct(t) ==
    /\ t \in DOMAIN threads
    /\ threads[t].pc = "deduct"
    /\ bucket' = [bucket EXCEPT !.tokens = @ - threads[t].tokens]
    /\ threads' = [threads EXCEPT ![t].pc = "return", ![t].result = "True"]
    /\ UNCHANGED <<calls, obsvars, simvars, registry, in_safe_mode, tokens,
                   last_update_ts, now, redis_observer, positions, orders,
                   processed, ret>>

\* ------------------------------------------------------------ SpecInterleave
\* Execution reports and reconcile cycles on MaxThreads threads, switched at
\* any step.  The fills are of one size; the snapshots name one symbol or
\* both.
InterleaveReports == FillReports({2 ^ MantBits}) \cup OtherReports
InterleaveSnapshots == Snapshots(Symbols, {0, 2 ^ MantBits})

CallReport ==
    \E t \in Threads : \E report \in InterleaveReports :
        call_process_execution_report(t, report)
CallReconcile ==
    \E t \in Threads : \E snapshot \in InterleaveSnapshots :
        call_reconcile(t, snapshot)
UpdateOrderState == \E t \in Threads : thread_update_order_state(t)
UpdatePosition == \E t \in Threads : thread_update_position(t)
ReconcileTurn == \E t \in Threads : thread_reconcile(t)

NextInterleave ==
    \/ CallReport \/ CallReconcile \/ UpdateOrderState \/ UpdatePosition
    \/ ReconcileTurn

SpecInterleave == Init /\ [][NextInterleave]_vars

\* ------------------------------------------------------------ SpecRace
\* Intents and consume calls on MaxThreads threads, switched at any step,
\* with the Observer's status set beforehand.  The intents carry the two
\* core order ids; the consume calls go to a TokenBucket of its own.
RaceStatus ==
    /\ threads = <<>>
    /\ redis_observer = <<>>
    /\ \E status \in ObserverStatuses : set_system_status(status)
CallSubmit ==
    \E t \in Threads : \E intent \in CoreIntents : call_submit_intent(t, intent)
CallConsume ==
    \E t \in Threads : \E k \in BucketRun.amounts : call_consume(t, k)
Register == \E t \in Threads : thread_register(t)
Store == \E t \in Threads : thread_store(t)
Validate == \E t \in Threads : thread_validate_intent(t)
Refill == \E t \in Threads : thread_refill(t)
Test == \E t \in Threads : thread_if(t)
Deduct == \E t \in Threads : thread_deduct(t)

NextRace ==
    \/ RaceStatus \/ CallSubmit \/ CallConsume \/ Register \/ Store \/ Validate
    \/ Refill \/ Test \/ Deduct

SpecRace == InitSpecBucket /\ [][NextRace]_vars

\* ------------------------------------------------------------ properties
Connected ==
    /\ "observer:status" \in DOMAIN redis_observer
    /\ redis_observer["observer:status"] = "CONNECTED"
Stale ==
    now - (IF "observer:last_update" \in DOMAIN redis_observer
           THEN redis_observer["observer:last_update"] ELSE 0) > HeartbeatTolerance

\* C1: a submission that fails with HARD_BLOCK leaves the Gatekeeper as it
\* was: in particular the registry has no entry for the blocked client order
\* id, so that a later submission of the id is a new intent.
C1_HardBlockLeavesNoEntry ==
    (ret.op = "submit_intent" /\ ret.result = "HARD_BLOCK")
        => ret.arg.client_order_id \notin DOMAIN registry

\* C2: a client order id is registered once: a submission registers its
\* intent when the id is new and is answered DUPLICATE when it is not, and a
\* registered entry is never replaced or removed, so that get returns the
\* first intent registered under the id.
C2_RegistryFirstWins ==
    [][/\ \A c \in DOMAIN registry :
            c \in DOMAIN registry' /\ get(registry', c) = get(registry, c)
       /\ (ret'.op = "submit_intent" /\ submit_intent(ret'.arg, 0)) =>
            IF ret'.arg.client_order_id \in DOMAIN registry
            THEN ret'.result = "DUPLICATE"
            ELSE /\ ret'.result # "DUPLICATE"
                 /\ get(registry', ret'.arg.client_order_id) = {ret'.arg}]_vars

\* a later intent with another content was answered DUPLICATE and the first
\* one is still registered
C2_Witness ==
    /\ ret.op = "submit_intent"
    /\ ret.result = "DUPLICATE"
    /\ get(registry, ret.arg.client_order_id) # {ret.arg}
    /\ get(registry, ret.arg.client_order_id) # {}

\* C3: a submission whose client order id is registered is answered
\* DUPLICATE whatever the guard's state, and changes neither the registry, the
\* token bucket, the safe-mode flag, the positions nor the orders.
C3_DuplicateIsNoOp ==
    [][\A d \in ClockJitter :
         (/\ ret'.op = "submit_intent"
          /\ ret'.arg.client_order_id \in DOMAIN registry
          /\ submit_intent(ret'.arg, d)) =>
            /\ ret'.result = "DUPLICATE"
            /\ UNCHANGED <<registry, in_safe_mode, tokens, last_update_ts,
                           positions, orders>>]_vars

\* a duplicate answered in safe mode, with the Observer not CONNECTED and
\* with less than one token in the bucket
C3_Witness ==
    /\ ret.op = "submit_intent"
    /\ ret.result = "DUPLICATE"
    /\ in_safe_mode
    /\ ~Connected
    /\ tokens < OneToken

\* C4: the guard's checks run in the order safe mode, Observer status,
\* heartbeat, rate limit: a new intent is blocked with the reason of the first
\* failing check, and when one of the first three fails the bucket is left
\* untouched; a token is taken only when all three pass.
C4_GuardOrder ==
    [][\A d \in ClockJitter :
         (/\ ret'.op = "submit_intent"
          /\ ret'.arg.client_order_id \notin DOMAIN registry
          /\ submit_intent(ret'.arg, d)) =>
            LET blocked(n) == /\ ret'.result = "HARD_BLOCK"
                              /\ ret'.reason.check = n
                refilled == Min(capacity, tokens + (now + d - last_update_ts) * rate)
            IN  IF in_safe_mode THEN blocked(1) /\ UNCHANGED <<tokens, last_update_ts>>
                ELSE IF ~Connected THEN blocked(2) /\ UNCHANGED <<tokens, last_update_ts>>
                ELSE IF Stale THEN blocked(3) /\ UNCHANGED <<tokens, last_update_ts>>
                ELSE IF refilled < OneToken THEN blocked(4) /\ tokens' = refilled
                ELSE ret'.result = "ACCEPTED" /\ tokens' = refilled - OneToken]_vars

\* a new intent blocked for the stale heartbeat while the bucket holds less
\* than one token: the reason is the heartbeat, not the rate limit
C4_Witness ==
    /\ ret.op = "submit_intent"
    /\ ret.result = "HARD_BLOCK"
    /\ ret.reason.check = 3
    /\ tokens < OneToken

\* C5: safe mode is a latch: once the flag is set no step clears it, and a
\* submission of a client order id that is not registered, made in safe mode,
\* fails with HARD_BLOCK.
C5_SafeModeLatch ==
    [][/\ in_safe_mode => in_safe_mode'
       /\ (/\ in_safe_mode
           /\ ret'.op = "submit_intent"
           /\ ret'.arg.client_order_id \notin DOMAIN registry
           /\ submit_intent(ret'.arg, 0)) =>
            ret'.result = "HARD_BLOCK"]_vars

\* safe mode is still set after a reconcile cycle that passed cleanly on a
\* snapshot with a symbol, reports having been processed
C5_Witness ==
    /\ in_safe_mode
    /\ ret.op = "reconcile"
    /\ Len(ret.arg) > 0
    /\ ret.log[Len(ret.log)].event = "reconciliation_passed"
    /\ Len(processed) > 0

RECURSIVE SignedSum(_, _, _)
\* the exact sum of signed(filled_quantity, side) over the fills for symbol s
\* among the first n reports of reports
SignedSum(reports, s, n) ==
    IF n = 0 THEN 0
    ELSE LET r == reports[n]
             q == IF r.symbol = s /\ r.status \in {"PARTIAL_FILL", "FILLED"}
                  THEN (IF r.side = "BUY" THEN r.filled_quantity ELSE -r.filled_quantity)
                  ELSE 0
         IN  SignedSum(reports, s, n - 1) + q

\* C6: every position is exactly the sum of the signed filled quantities of
\* the processed PARTIAL_FILL and FILLED reports for its symbol; reports with
\* another status contribute nothing.
C6_PositionsAreExactSums ==
    \A s \in Symbols :
        get_position(positions, s) = SignedSum(processed, s, Len(processed))

\* the indices of the processed reports that carry client order id c
ReportsOf(c) == {k \in 1..Len(processed) : processed[k].client_order_id = c}
LastOf(c) == CHOOSE k \in ReportsOf(c) : \A j \in ReportsOf(c) : j <= k

\* C7: orders has an entry exactly for the client order ids that appeared in
\* a processed report, the entry is the most recently processed report with
\* that id, and no entry is ever deleted.
C7_OrdersHoldLatestReport ==
    /\ [](\A c \in CoreCloids :
            IF ReportsOf(c) = {} THEN c \notin DOMAIN orders
            ELSE /\ c \in DOMAIN orders
                 /\ orders[c] = model_dump_json(processed[LastOf(c)]))
    /\ [][DOMAIN orders \subseteq DOMAIN orders']_vars

\* two different reports with one client order id were processed and orders
\* holds the second
C7_Witness ==
    /\ Len(processed) >= 2
    /\ processed[1].client_order_id = processed[2].client_order_id
    /\ processed[1] # processed[2]
    /\ ReportsOf(processed[1].client_order_id) = {1, 2}
    /\ orders[processed[1].client_order_id] = model_dump_json(processed[2])

\* C8: positions and orders change only in process_execution_report steps:
\* submit_intent and reconcile steps leave both unchanged.
C8_OnlyReportsMutate ==
    [][/\ (ret'.op = "submit_intent" /\ submit_intent(ret'.arg, 0))
              => UNCHANGED <<positions, orders>>
       /\ (ret'.op = "reconcile" /\ reconcile(ret'.arg))
              => UNCHANGED <<positions, orders>>
       /\ (positions' # positions \/ orders' # orders)
              => Len(processed') = Len(processed) + 1]_vars

\* a reconcile cycle detected a drift on a held position and the position is
\* what the reports made it
C8_Witness ==
    /\ ret.op = "reconcile"
    /\ in_safe_mode
    /\ Len(ret.log) = 3
    /\ "X" \in DOMAIN positions
    /\ positions["X"] = SignedSum(processed, "X", Len(processed))
    /\ \E c \in DOMAIN registry : TRUE

\* whether a snapshot item differs from the internal position by more than
\* the tolerance
Mismatch(snap, k) == Abs(get_position(positions, snap[k][1]) - snap[k][2]) > Epsilon
HasEvent(log, e) == \E j \in 1..Len(log) : log[j].event = e

\* C9: a reconcile cycle activates safe mode exactly when some symbol of the
\* snapshot differs from the internal position by more than the tolerance; a
\* cycle without such a symbol leaves the flag as it was and reports
\* reconciliation_passed.
C9_SafeModeIffDrift ==
    [][(ret'.op = "reconcile" /\ reconcile(ret'.arg)) =>
            LET snap == ret'.arg
                drift == \E k \in 1..Len(snap) : Mismatch(snap, k)
            IN  /\ HasEvent(ret'.log, "safe_mode_activated") <=> drift
                /\ drift => in_safe_mode'
                /\ ~drift => /\ in_safe_mode' = in_safe_mode
                             /\ HasEvent(ret'.log, "reconciliation_passed")]_vars

\* a cycle passed although a snapshot symbol differs from the position by
\* exactly the tolerance
C9_Witness ==
    /\ ret.op = "reconcile"
    /\ ~in_safe_mode
    /\ HasEvent(ret.log, "reconciliation_passed")
    /\ \E k \in 1..Len(ret.arg) :
          Abs(get_position(positions, ret.arg[k][1]) - ret.arg[k][2]) = Epsilon

\* C10: a reconcile cycle that finds a mismatch emits one CRITICAL_STATE_DRIFT,
\* for the first mismatching symbol in snapshot order, enters safe mode with a
\* reason naming that symbol, compares no symbol after it and does not report
\* reconciliation_passed; a cycle without mismatch emits none.
C10_FirstFailureWins ==
    ret.op = "reconcile" =>
        LET snap == ret.arg
            log == ret.log
            drifts == {j \in 1..Len(log) : log[j].event = "CRITICAL_STATE_DRIFT"}
            bad == {k \in 1..Len(snap) : Mismatch(snap, k)}
        IN  IF bad = {} THEN drifts = {}
            ELSE LET f == CHOOSE k \in bad : \A j \in bad : k <= j
                 IN  /\ Cardinality(drifts) = 1
                     /\ \A j \in drifts : log[j].symbol = snap[f][1]
                     /\ \E j \in 1..Len(log) :
                           log[j] = safe_mode_activated(<<"Drift detected for", snap[f][1]>>)
                     /\ ret.compared = [k \in 1..f |-> snap[k][1]]
                     /\ ~HasEvent(log, "reconciliation_passed")

\* a cycle on a snapshot whose two symbols both mismatch
C10_Witness ==
    /\ ret.op = "reconcile"
    /\ Len(ret.arg) = 2
    /\ Mismatch(ret.arg, 1)
    /\ Mismatch(ret.arg, 2)
    /\ Len(ret.compared) = 1

RECURSIVE Asked(_, _, _)
\* the tokens asked for by the calls h[i..j]
Asked(h, i, j) == IF i > j THEN 0 ELSE h[j].k + Asked(h, i, j - 1)

RECURSIVE Granted(_, _, _)
\* the tokens granted by the successful calls among h[i..j]
Granted(h, i, j) ==
    IF i > j THEN 0
    ELSE (IF h[j].ok THEN h[j].k ELSE 0) + Granted(h, i, j - 1)

\* C11: after any sequence of consume calls at nondecreasing clock readings
\* the bucket holds between 0 and capacity tokens, and the tokens granted
\* by the successful calls inside a window of length D never exceed
\* capacity + rate * D (it is enough to take the windows that begin and
\* end with a call)
C11_BucketBounds ==
    /\ 0 <= bucket.tokens
    /\ bucket.tokens <= bucket.capacity
    /\ \A i, j \in 1..Len(calls) :
         i <= j => Granted(calls, i, j) <=
                     bucket.capacity + bucket.rate * (calls[j].t - calls[i].t)

\* a refusal, and a window of positive length that the grants fill to the
\* bound
C11_Witness ==
    /\ \E n \in 1..Len(calls) : ~calls[n].ok
    /\ \E i, j \in 1..Len(calls) :
         /\ calls[i].t < calls[j].t
         /\ Granted(calls, i, j) =
              bucket.capacity + bucket.rate * (calls[j].t - calls[i].t)

\* the first n calls were made at the instant the bucket was constructed
AtOnce(n) == \A m \in 1..n : calls[m].t = 0

\* calls m+1..n are consume(1) calls made at one later instant
OneByOneLater(m, n) ==
    /\ calls[m + 1].t > 0
    /\ \A j \in (m + 1)..n : calls[j].t = calls[m + 1].t /\ calls[j].k = OneToken

\* C12: from a full bucket, consumes that total exactly capacity at one
\* instant all succeed; a further consume of a positive amount at that
\* instant fails and deducts nothing; when the next calls are consume(1)
\* calls at one instant D later, exactly floor(min(capacity, rate * D)) of
\* them succeed, and they are the first ones
C12_DrainAndRefill ==
    /\ \A n \in 1..Len(calls) :
         (AtOnce(n) /\ Asked(calls, 1, n) = bucket.capacity)
             => \A m \in 1..n : calls[m].ok
    /\ \A n \in 1..Len(calls) :
         (AtOnce(n) /\ Granted(calls, 1, n - 1) = bucket.capacity /\ calls[n].k > 0)
             => ~calls[n].ok
    /\ AtOnce(Len(calls))
         => bucket.tokens = bucket.capacity - Granted(calls, 1, Len(calls))
    /\ \A m \in 1..Len(calls) : \A n \in (m + 1)..Len(calls) :
         (/\ AtOnce(m)
          /\ Granted(calls, 1, m) = bucket.capacity
          /\ OneByOneLater(m, n))
             => (calls[n].ok <=>
                   n - m <= Min(bucket.capacity, bucket.rate * calls[n].t) \div OneToken)

\* TokenBucket(10, 10): ten consume(1) succeed, the 11th fails, half a second
\* later five succeed and the sixth fails
C12_Witness ==
    /\ bucket.capacity = 10 * OneToken
    /\ Len(calls) = 17
    /\ AtOnce(11)
    /\ \A n \in 1..10 : calls[n].ok
    /\ ~calls[11].ok
    /\ \A n \in 12..17 : calls[n].t = 500000
    /\ \A n \in 12..16 : calls[n].ok
    /\ ~calls[17].ok

\* C20: the drift window never holds more than 50 samples; once 50 or more
\* samples have been offered it holds exactly 50, the 50 offered last, in
\* the order of their arrival
C20_WindowIsLast50 ==
    /\ Len(drift_samples) <= 50
    /\ Len(offered) >= 50 =>
          /\ Len(drift_samples) = 50
          /\ drift_samples = SubSeq(offered, Len(offered) - 49, Len(offered))

\* 52 samples offered: the two oldest ones are gone
C20_Witness ==
    /\ Len(offered) = 52
    /\ Len(drift_samples) = 50
    /\ drift_samples[1] = offered[3]
    /\ drift_samples[50] = offered[52]

\* the edges of the status graph
Edges == {<<"CONNECTED", "DEGRADED">>, <<"CONNECTED", "HALT">>,
          <<"DEGRADED", "HALT">>}

\* the entries a step appends to the journal
NewEntries == SubSeq(journal', Len(journal) + 1, Len(journal'))

RECURSIVE StatusesOf(_)
\* the statuses of the STATUS_CHANGE entries of a sequence of entries
StatusesOf(entries) ==
    IF entries = <<>> THEN <<>>
    ELSE IF Head(entries).event_type = "STATUS_CHANGE"
         THEN <<Head(entries).data.status>> \o StatusesOf(Tail(entries))
         ELSE StatusesOf(Tail(entries))

\* the statuses a step goes through: the one before it, then the ones it
\* journals
StatusPath == <<get_system_status(redis_observer)>> \o StatusesOf(NewEntries)

\* C13: after the startup transition to CONNECTED every change of
\* observer:status, within a step or from one step to the next, follows an
\* edge CONNECTED->DEGRADED, CONNECTED->HALT or DEGRADED->HALT; HALT is
\* never left and DEGRADED never returns to CONNECTED
C13_StatusEdges ==
    [][start_pc # "init" =>
         /\ get_system_status(redis_observer') = StatusPath[Len(StatusPath)]
         /\ \A n \in 1..(Len(StatusPath) - 1) :
              \/ StatusPath[n + 1] = StatusPath[n]
              \/ <<StatusPath[n], StatusPath[n + 1]>> \in Edges]_vars

\* a gap is journaled after a HALT, and the status is still HALT
C13_Witness ==
    /\ get_system_status(redis_observer) = "HALT"
    /\ \E n \in 1..Len(journal) : \E m \in (n + 1)..Len(journal) :
         /\ journal[n].event_type = "STATUS_CHANGE"
         /\ journal[n].data.status = "HALT"
         /\ journal[m].event_type = "GAP"

\* the places of the GAP entries in a sequence of entries
GapEntries(entries) == {n \in 1..Len(entries) : entries[n].event_type = "GAP"}

\* the packet the processor can take next
NextPacket == IF packet_queue = <<>> THEN {} ELSE {Head(packet_queue)}

\* C14: gap detection is keyed by (source, topic).  When the processor
\* takes a packet with sequence id s: the first packet of its key, and one
\* with s = last + 1, journal no GAP and leave the gap counter alone; one
\* with s > last + 1 journals exactly one GAP entry, with expected = last + 1
\* and got = s, adds exactly 1 to the gap counter, and makes the transition
\* to DEGRADED when the status is CONNECTED and no transition to DEGRADED
\* otherwise, so that unless the drift check of the same packet halts the
\* status ends DEGRADED, or as it was; the tracker of every other key is left
\* as it is
C14_GapDetection ==
    [][\A packet \in NextPacket :
         (taken' = Append(taken, packet) /\ packet.sequence_id # {}) =>
            LET key == packet.source \o ":" \o packet.topic
                known == key \in DOMAIN sequence_tracker
                last == sequence_tracker[key]
                s == CHOOSE x \in packet.sequence_id : TRUE
                status == get_system_status(redis_observer)
                statuses == StatusesOf(NewEntries)
                halted == \E n \in 1..Len(statuses) : statuses[n] = "HALT"
                degraded == \E n \in 1..Len(statuses) : statuses[n] = "DEGRADED"
            IN  /\ \A k \in DOMAIN sequence_tracker \ {key} :
                     /\ k \in DOMAIN sequence_tracker'
                     /\ sequence_tracker'[k] = sequence_tracker[k]
                /\ IF ~known \/ s <= last + 1
                   THEN /\ (~known \/ s = last + 1) =>
                             /\ GapEntries(NewEntries) = {}
                             /\ gap_count' = gap_count
                             /\ ~degraded
                   ELSE /\ GapEntries(NewEntries) = {1}
                        /\ NewEntries[1].data =
                              [source |-> key, expected |-> last + 1, got |-> s]
                        /\ gap_count' = gap_count + 1
                        /\ degraded <=> status = "CONNECTED"
                        /\ degraded => statuses[1] = "DEGRADED"
                        /\ ~halted =>
                              get_system_status(redis_observer') =
                                IF status = "CONNECTED" THEN "DEGRADED" ELSE status]_vars

\* ids 1, 2, 5 on one key: one GAP entry (expected 3, got 5), the status is
\* DEGRADED and the gap counter is 1
C14_Witness ==
    /\ Len(taken) = 3
    /\ \A n \in 1..3 : taken[n].topic = "BTC/USDT"
    /\ <<taken[1].sequence_id, taken[2].sequence_id, taken[3].sequence_id>>
         = <<{1}, {2}, {5}>>
    /\ Cardinality(GapEntries(journal)) = 1
    /\ \E n \in GapEntries(journal) :
         journal[n].data = [source |-> "binance_ccxt:BTC/USDT", expected |-> 3,
                            got |-> 5]
    /\ get_system_status(redis_observer) = "DEGRADED"
    /\ gap_count = 1

\* the drift window's mean is beyond the limit
Offending(window) == Abs(SeqSum(window)) > 500000 * Len(window)

\* the packet of the n-th arrival has been taken by the processor
Taken(n) == \E m \in 1..Len(taken) : taken[m].local_arrival_ts = n

\* C15: when the window mean is beyond 500,000 us after a packet's drift is
\* added, the status after that packet is HALT and the last entry the packet
\* journals is a STATUS_CHANGE to HALT carrying that mean; the Observer goes
\* on: running stays set, the ingestors and the processor stay where they
\* are, every packet arriving while the status is HALT is journaled and
\* queued, the processor empties the queue again, and HALT stays
C15_DriftHaltFreezes ==
    /\ [][\A packet \in NextPacket :
            (taken' = Append(taken, packet) /\ Offending(drift_samples')) =>
               /\ get_system_status(redis_observer') = "HALT"
               /\ NewEntries # <<>>
               /\ NewEntries[Len(NewEntries)] =
                     JournalEntry("STATUS_CHANGE",
                        [status |-> "HALT", reason |-> "Drift Violation",
                         payload |-> [mean_drift_us |->
                                        [sum |-> SeqSum(drift_samples'),
                                         count |-> Len(drift_samples')]]])
               /\ UNCHANGED <<running, ingest_pc, process_pc, journal_file>>]_vars
    /\ [][get_system_status(redis_observer) = "HALT" =>
            /\ get_system_status(redis_observer') = "HALT"
            /\ arrivals' # arrivals =>
                  /\ Len(journal') = Len(journal) + 1
                  /\ journal'[Len(journal')].event_type = "PACKET"
                  /\ packet_queue' =
                        Append(packet_queue, journal'[Len(journal')].data)]_vars
    /\ (get_system_status(redis_observer) = "HALT" /\ packet_queue # <<>>)
          ~> (packet_queue = <<>>)

\* the drift has halted the Observer, and a packet journaled after that has
\* been processed; the status is HALT
C15_Witness ==
    /\ get_system_status(redis_observer) = "HALT"
    /\ \E n \in 1..Len(journal) : \E m \in (n + 1)..Len(journal) :
         /\ journal[n].event_type = "STATUS_CHANGE"
         /\ journal[n].data.reason = "Drift Violation"
         /\ journal[m].event_type = "PACKET"
         /\ Taken(journal[m].data.local_arrival_ts)

\* the PACKET entries of the journal that record the packet
PacketEntries(packet) ==
    {n \in 1..Len(journal) : journal[n] = JournalEntry("PACKET", packet)}

\* C16: write-ahead.  Every packet in the queue, and every packet the
\* processor has taken, has its PACKET entry in the journal; the GAP and
\* STATUS_CHANGE entries a packet causes are appended when the processor
\* takes it, after its PACKET entry, and nothing journaled is rewritten
C16_WriteAhead ==
    /\ [](/\ \A m \in 1..Len(packet_queue) : PacketEntries(packet_queue[m]) # {}
          /\ \A m \in 1..Len(taken) : PacketEntries(taken[m]) # {})
    /\ [][\A packet \in NextPacket :
            taken' = Append(taken, packet) =>
               /\ PacketEntries(packet) # {}
               /\ SubSeq(journal', 1, Len(journal)) = journal
               /\ \A n \in 1..Len(NewEntries) :
                    NewEntries[n].event_type \in {"GAP", "STATUS_CHANGE"}]_vars

\* a packet waits in the queue while a packet taken before it has had a GAP
\* and a STATUS_CHANGE journaled
C16_Witness ==
    /\ packet_queue # <<>>
    /\ \E m \in 1..Len(taken) : \E n \in GapEntries(journal) :
         /\ \A k \in PacketEntries(taken[m]) : k < n
         /\ n < Len(journal)
         /\ journal[n + 1].event_type = "STATUS_CHANGE"

\* C17: the queue is bounded: whatever the number of packets that arrive,
\* the queue holds fewer, because an ingestor that finds it full waits
C17_QueueBounded == \E cap \in 1..(MaxPackets - 1) : Len(packet_queue) <= cap

\* the shutdown has journaled its HALT
ShutdownJournaled ==
    \E n \in 1..Len(journal) :
        /\ journal[n].event_type = "STATUS_CHANGE"
        /\ journal[n].data.status = "HALT"
        /\ journal[n].data.reason = "Shutdown Initiated"

\* every packet that was journaled, and so put on the queue, has been taken
Drained ==
    \A n \in 1..Len(journal) :
        journal[n].event_type = "PACKET" => Taken(journal[n].data.local_arrival_ts)

\* C19: shutdown goes in this order: the HALT is journaled, the queue is
\* drained, the ingestors are closed, the journal is closed
C19_ShutdownOrder ==
    /\ ~running => ShutdownJournaled
    /\ closed # {} => Drained
    /\ journal_file = "closed" => closed = Exchanges

\* a stream has raised an error
StreamFailed == \E e \in Exchanges : ingest_pc[e] = "failed"

\* a STATUS_CHANGE to HALT is in the journal
HaltJournaled ==
    \E n \in 1..Len(journal) :
        journal[n].event_type = "STATUS_CHANGE" /\ journal[n].data.status = "HALT"

\* C18: a stream that raises an error while the Observer runs is not tried
\* again, and no packet of it is journaled any more; the status becomes
\* HALT and a STATUS_CHANGE to HALT is journaled; once start has ended,
\* which is when shutdown is over, no packet is processed
C18_StreamFailureHalts ==
    /\ [][\A e \in Exchanges :
            ingest_pc[e] = "failed" =>
               /\ ingest_pc'[e] = "failed"
               /\ \A n \in 1..Len(NewEntries) :
                    NewEntries[n].event_type = "PACKET" => NewEntries[n].data.topic # e]_vars
    /\ (StreamFailed /\ running)
          ~> (get_system_status(redis_observer) = "HALT" /\ HaltJournaled)
    /\ [][start_pc = "done" => UNCHANGED <<taken, journal, redis_observer>>]_vars

\* a stream failed while packets were queued; start has journaled the
\* critical failure and shutdown is over
C18_Witness ==
    /\ StreamFailed
    /\ start_pc = "done"
    /\ shutdown_pc = "complete"
    /\ packet_queue # <<>>
    /\ get_system_status(redis_observer) = "HALT"
    /\ \E n \in 1..Len(journal) :
         /\ journal[n].event_type = "STATUS_CHANGE"
         /\ journal[n].data.reason = "Critical Failure: stream"

\* C21: no two PACKET entries of the journal carry the same (source, topic,
\* sequence_id): a packet the stream delivers again is not journaled again
C21_NoDuplicatePackets ==
    \A n \in 1..Len(journal) : \A m \in (n + 1)..Len(journal) :
        (journal[n].event_type = "PACKET" /\ journal[m].event_type = "PACKET") =>
            <<journal[n].data.source, journal[n].data.topic,
              journal[n].data.sequence_id>>
              # <<journal[m].data.source, journal[m].data.topic,
                  journal[m].data.sequence_id>>

\* the sequence ids of the packets of a key that the processor has taken
SeenIds(key) ==
    {s \in 1..5 : \E n \in 1..Len(taken) :
        /\ taken[n].source \o ":" \o taken[n].topic = key
        /\ taken[n].sequence_id = {s}}

\* C30: a packet whose sequence id is below the last one of its key does
\* not rewind the tracker, and a packet whose id is at most one more than
\* the highest id processed for its key journals no GAP
C30_NoRewind ==
    [][\A packet \in NextPacket :
         (taken' = Append(taken, packet) /\ packet.sequence_id # {}) =>
            LET key == packet.source \o ":" \o packet.topic
                s == CHOOSE x \in packet.sequence_id : TRUE
            IN  key \in DOMAIN sequence_tracker =>
                  /\ s < sequence_tracker[key] =>
                        sequence_tracker'[key] = sequence_tracker[key]
                  /\ (\E h \in SeenIds(key) : s <= h + 1) =>
                        GapEntries(NewEntries) = {}]_vars

\* the verdict of an engine that has returned
VerdictOf(i) == CHOOSE v \in engines[i].verdict : TRUE
Returned(i) == i \in DOMAIN engines /\ engines[i].pc = "returned"

FileOf(i) == files[engines[i].config.journal_path]
NonEmpty(lines) == {n \in 1..Len(lines) : strip(lines[n]) # ""}

\* the events of engine i that were applied, hashed and found to agree with
\* the reference, or to have none
Verified(i) ==
    {x \in DOMAIN engines[i].hash_log :
        x \in DOMAIN engines[i].reference_hashes =>
            engines[i].reference_hashes[x] = engines[i].hash_log[x]}

\* a line of the file of engine i does not parse, or holds an event that
\* cannot be applied
Unreadable(i) ==
    \E n \in NonEmpty(FileOf(i)) :
        \/ model_validate_json(FileOf(i)[n]) = {}
        \/ \E entry \in model_validate_json(FileOf(i)[n]) :
             _process_single_event(SimulatedStateStore, OrderedEvent(0, entry)).raised

\* C24: a run in which no computed hash differs from a loaded reference
\* hash, and no line or event raises an error, returns PASS; PASS comes with
\* events_processed = events_total = the number of non-empty lines and one
\* hash for every index 0..events_total-1.  On FAIL and on ERROR
\* events_processed is at most events_total and is the number of events
\* applied and verified before the stop.
C24_VerdictCounts ==
    \A i \in DOMAIN engines : Returned(i) =>
        LET v == VerdictOf(i)
            differs == \E x \in DOMAIN engines[i].hash_log : x \notin Verified(i)
        IN  /\ (~differs /\ ~Unreadable(i)) => v.status = "PASS"
            /\ v.status = "PASS" =>
                  /\ v.events_processed = v.events_total
                  /\ v.events_total = Cardinality(NonEmpty(FileOf(i)))
                  /\ DOMAIN engines[i].hash_log = 0..(v.events_total - 1)
            /\ v.status \in {"FAIL", "ERROR"} =>
                  /\ v.events_processed <= v.events_total
                  /\ v.events_processed = Cardinality(Verified(i))
            /\ v.status = "FAIL" <=> differs

\* a file of two events and an empty line was replayed: PASS with 2 of 2;
\* replayed against a reference whose second hash is stale: FAIL with 1 of 2
C24_Witness ==
    /\ Returned(1) /\ Returned(2)
    /\ Len(FileOf(1)) = 3
    /\ VerdictOf(1).status = "PASS"
    /\ VerdictOf(1).events_processed = 2
    /\ VerdictOf(1).events_total = 2
    /\ DOMAIN engines[1].hash_log = {0, 1}
    /\ VerdictOf(2).status = "FAIL"
    /\ VerdictOf(2).events_processed = 1
    /\ VerdictOf(2).events_total = 2

\* a non-empty line of the file of engine i is no journal record
Malformed(i) ==
    \E n \in NonEmpty(FileOf(i)) : model_validate_json(FileOf(i)[n]) = {}

\* C25: when a non-empty line of the journal, wherever it stands, does not
\* parse as a journal record, run returns ERROR with events_processed = 0,
\* applies no event and leaves the hash log empty; otherwise the events are
\* the non-empty lines, empty lines being passed over and not counted
C25_MalformedFailsRun ==
    \A i \in DOMAIN engines : engines[i].pc # "constructed" =>
        IF Malformed(i)
        THEN /\ Returned(i)
             /\ VerdictOf(i).status = "ERROR"
             /\ VerdictOf(i).events_processed = 0
             /\ engines[i].state = SimulatedStateStore
             /\ engines[i].hash_log = <<>>
        ELSE /\ engines[i].total_events = Cardinality(NonEmpty(FileOf(i)))
             /\ \A n \in NonEmpty(FileOf(i)) :
                  \E k \in 1..Len(engines[i].events) :
                     /\ engines[i].events[k].index =
                           Cardinality({m \in NonEmpty(FileOf(i)) : m < n})
                     /\ {engines[i].events[k].event} =
                           model_validate_json(FileOf(i)[n])

\* a file of two events followed by a line that is no JSON was run: ERROR,
\* nothing processed, nothing hashed
C25_Witness ==
    /\ Returned(1)
    /\ Len(FileOf(1)) = 3
    /\ model_validate_json(FileOf(1)[1]) # {}
    /\ model_validate_json(FileOf(1)[2]) # {}
    /\ FileOf(1)[3].text = "{"
    /\ VerdictOf(1).status = "ERROR"
    /\ VerdictOf(1).events_processed = 0
    /\ engines[1].hash_log = <<>>

\* the place in the replay order of the event with index x
PlaceOf(i, x) ==
    CHOOSE k \in 1..Len(engines[i].events) : engines[i].events[k].index = x

\* C23: with reference hashes loaded, run returns FAIL at the first event in
\* replay order whose state hash differs from the reference hash for its
\* index, and only then: the events before it were applied, hashed and had
\* no reference hash or the same one; no event after it is applied or
\* hashed; the divergence point holds its index, the reference hash and the
\* computed hash; the causal chain is the min(10, index) indices just below
\* its index, ascending
C23_FailsAtFirstDivergence ==
    \A i \in DOMAIN engines : Returned(i) =>
        IF VerdictOf(i).status = "FAIL"
        THEN \E d \in VerdictOf(i).divergence :
               LET x == d.event_index
                   k == PlaceOf(i, x)
               IN  /\ x \in DOMAIN engines[i].reference_hashes
                   /\ d.expected_hash = engines[i].reference_hashes[x]
                   /\ d.actual_hash = engines[i].hash_log[x]
                   /\ d.expected_hash # d.actual_hash
                   /\ \A j \in 1..(k - 1) :
                        engines[i].events[j].index \in Verified(i)
                   /\ \A j \in (k + 1)..Len(engines[i].events) :
                        engines[i].events[j].index \notin DOMAIN engines[i].hash_log
                   /\ get_state_hash(engines[i].state) = d.actual_hash
                   /\ engines[i].state.last_seen_ts =
                         engines[i].events[k].local_arrival_ts
                   /\ Len(d.causal_chain) = Min(10, x)
                   /\ \A n \in 1..Len(d.causal_chain) :
                        d.causal_chain[n] = x - Len(d.causal_chain) + n - 1
        ELSE DOMAIN engines[i].hash_log \subseteq Verified(i)

\* the journal whose replay order is the reverse of the file order was run
\* against a reference with two stale hashes, at index 11 and below: FAIL
\* at 11, which comes first, with the chain 1..10, and the other stale index
\* was never reached
C23_Witness ==
    /\ Returned(2)
    /\ VerdictOf(2).status = "FAIL"
    /\ \E d \in VerdictOf(2).divergence :
         /\ d.event_index = 11
         /\ d.causal_chain = <<1, 2, 3, 4, 5, 6, 7, 8, 9, 10>>
    /\ \E x \in 0..10 :
         /\ x \in DOMAIN engines[2].reference_hashes
         /\ engines[2].reference_hashes[x] = StaleHash
         /\ x \notin DOMAIN engines[2].hash_log

\* the key of an event as the ordering rule gives it: the timestamp of the
\* entry, the sequence id (none: above all), the priority of the source
RuleKey(e) ==
    LET data == e.event.data
        source == IF "source" \in DOMAIN data THEN data.source ELSE "unknown"
    IN  [ts |-> e.event.timestamp,
         seq |-> IF "sequence_id" \in DOMAIN data THEN data.sequence_id ELSE {},
         priority |-> IF source \in {"binance_ws", "binance_ccxt", "kite_ws"} THEN 1
                      ELSE IF source \in {"binance_rest", "kite_rest"} THEN 2
                      ELSE 3]

\* whether key a comes before key b
RuleBefore(a, b) ==
    LET seq_lt == /\ a.seq # {}
                  /\ \A x \in a.seq : \A y \in b.seq : x < y
    IN  \/ a.ts < b.ts
        \/ a.ts = b.ts /\ seq_lt
        \/ a.ts = b.ts /\ a.seq = b.seq /\ a.priority < b.priority

\* C26: the events are applied in nondecreasing order of (timestamp,
\* sequence id or +infinity, source priority: WS 1, REST 2, others 3), those
\* with equal keys in file order; each event keeps as index its place among
\* the non-empty lines of the file
C26_ReplayOrder ==
    \A i \in DOMAIN engines : (engines[i].pc # "constructed" /\ ~Malformed(i)) =>
        LET events == engines[i].events
        IN  /\ \A j \in 1..Len(events) : \A k \in (j + 1)..Len(events) :
                 /\ ~RuleBefore(RuleKey(events[k]), RuleKey(events[j]))
                 /\ RuleKey(events[j]) = RuleKey(events[k]) =>
                       events[j].index < events[k].index
            /\ \A n \in NonEmpty(FileOf(i)) :
                 \E k \in 1..Len(events) :
                    /\ events[k].index = Cardinality({m \in NonEmpty(FileOf(i)) : m < n})
                    /\ {events[k].event} = model_validate_json(FileOf(i)[n])
            /\ Len(events) = Cardinality(NonEmpty(FileOf(i)))
            /\ DOMAIN engines[i].hash_log =
                  {events[j].index : j \in 1..engines[i].processed}
            /\ engines[i].processed > 0 =>
                  engines[i].state.last_seen_ts =
                     events[engines[i].processed].event.timestamp

\* the file holds a packet with sequence id 2 and then two packets of two WS
\* sources with sequence id 1: the replay applied the second line, the
\* third, then the first
C26_Witness ==
    /\ Returned(1)
    /\ VerdictOf(1).status = "PASS"
    /\ Len(engines[1].events) = 3
    /\ <<engines[1].events[1].index, engines[1].events[2].index,
         engines[1].events[3].index>> = <<1, 2, 0>>
    /\ RuleKey(engines[1].events[1]) = RuleKey(engines[1].events[2])
    /\ engines[1].events[1].event # engines[1].events[2].event

\* the keys of a dict
Keys(d) == {d[n][1] : n \in 1..Len(d)}

\* two state stores with the same content: the same symbols with equal
\* positions, the same orders, the same status and gap count
SameContent(a, b) ==
    /\ Keys(a.positions) = Keys(b.positions)
    /\ \A symbol \in Keys(a.positions) :
         Value(dict_get(a.positions, symbol, Zero)) =
            Value(dict_get(b.positions, symbol, Zero))
    /\ Keys(a.orders) = Keys(b.orders)
    /\ \A c \in Keys(a.orders) :
         dict_get(a.orders, c, <<>>) = dict_get(b.orders, c, <<>>)
    /\ a.system_status = b.system_status
    /\ a.gap_count = b.gap_count

\* C27: the state hash is a function of the content of the state and of
\* nothing else: two states with the same positions, orders, status and gap
\* count have the same hash, however they were filled, and two states that
\* differ in one of these have different hashes
C27_HashIsContentOnly ==
    \A i \in DOMAIN engines : \A j \in DOMAIN engines :
        SameContent(engines[i].state, engines[j].state) <=>
            get_state_hash(engines[i].state) = get_state_hash(engines[j].state)

\* the replay of engine i has applied every event of its journal
Replayed(i) ==
    /\ i \in DOMAIN engines
    /\ engines[i].pc \in {"loop", "returned"}
    /\ engines[i].processed = Len(engines[i].events)

\* the latest of the processed reports that carries client order id c
LatestReport(c) == processed[LastOf(c)]

\* the positions of the simulator are those of the StateController
MirrorPositions(state) ==
    /\ Keys(state.positions) = DOMAIN positions
    /\ \A symbol \in DOMAIN positions :
          Value(dict_get(state.positions, symbol, Zero)) =
              get_position(positions, symbol)

\* the orders of the simulator have the keys of the StateController's, each
\* with the latest report of its client order id
MirrorOrders(state) ==
    /\ Keys(state.orders) = DOMAIN orders
    /\ \A c \in DOMAIN orders :
          /\ dict_get(state.orders, c, None) = Embedded(LatestReport(c))
          /\ orders[c] = model_dump_json(LatestReport(c))

\* C28: when a journal whose PACKET entries embed the execution reports the
\* Gatekeeper has processed, in their order, has been replayed, the
\* simulator's positions equal the StateController's positions and its
\* orders map has the same keys, each with the latest report of its id.
C28_ApplyMirrorsStateController ==
    (Replayed(1) /\ Len(engines[1].events) = Len(processed)) =>
        /\ MirrorPositions(engines[1].state)
        /\ MirrorOrders(engines[1].state)

\* the event engine i has applied last, when it has applied one
LastApplied(i) == engines[i].events[engines[i].processed].event

\* C29: when the journal an Observer session wrote has been replayed to its
\* last event, the simulator's system_status is the status the Observer last
\* stored; and right after a replayed STATUS_CHANGE entry it is the status
\* the Observer stored with that entry.
C29_ReplayReconstructsStatus ==
    \A i \in DOMAIN engines :
        /\ Replayed(i) =>
              engines[i].state.system_status = get_system_status(redis_observer)
        /\ (/\ engines[i].pc \in {"loop", "returned"}
            /\ engines[i].processed > 0
            /\ LastApplied(i).event_type = "STATUS_CHANGE") =>
              engines[i].state.system_status = LastApplied(i).data.status

\* the processor takes, in this step, a packet whose sequence id is the last
\* one seen under its key
TakesDuplicate ==
    /\ Len(taken') = Len(taken) + 1
    /\ LET packet == Head(packet_queue)
           key == packet.source \o ":" \o packet.topic
       IN  /\ packet.sequence_id # {}
           /\ key \in DOMAIN sequence_tracker
           /\ packet.sequence_id = {sequence_tracker[key]}

\* C31: a packet whose sequence id equals the last observed id of its key
\* mutates no state in the processor: the sequence tracker, the gap counter,
\* the system status and the drift window are the same after it as before.
C31_DuplicateSkipsMutation ==
    [][TakesDuplicate =>
          /\ sequence_tracker' = sequence_tracker
          /\ gap_count' = gap_count
          /\ get_system_status(redis_observer') = get_system_status(redis_observer)
          /\ drift_samples' = drift_samples]_vars

\* the statuses journaled so far, in the order of the journal
Journaled == StatusesOf(journal)

\* C32: a status transition is the pair (store update, STATUS_CHANGE entry)
\* with no step of another task in between.  In every state the status of
\* the latest STATUS_CHANGE entry is the stored status, and no status is
\* stored while none is journaled; a step that writes observer:status also
\* appends entries, the last of which is the STATUS_CHANGE with the status
\* that is stored after the step.
C32_TransitionIsAtomic ==
    /\ [](IF Journaled = <<>> THEN "observer:status" \notin DOMAIN redis_observer
          ELSE Journaled[Len(Journaled)] = get_system_status(redis_observer))
    /\ [][redis_observer' # redis_observer =>
            /\ NewEntries # <<>>
            /\ NewEntries[Len(NewEntries)].event_type = "STATUS_CHANGE"
            /\ NewEntries[Len(NewEntries)].data.status =
                   get_system_status(redis_observer')]_vars

\* the Observer has gone from CONNECTED to DEGRADED to HALT, each journaled
C32_Witness ==
    /\ Len(Journaled) >= 3
    /\ Journaled[Len(Journaled) - 1] = "DEGRADED"
    /\ Journaled[Len(Journaled)] = "HALT"
    /\ get_system_status(redis_observer) = "HALT"

\* thread u has stored the order record of a fill and not yet its position
Torn(u) ==
    /\ u \in DOMAIN threads
    /\ threads[u].op = "process_execution_report"
    /\ threads[u].pc = "_update_position"

\* thread t, in a call, takes a step
Steps(t) == t \in DOMAIN threads /\ threads'[t] # threads[t]

\* the reconcile on thread t compares, in this step, an item of the snapshot
\* that is the position implied by the reports whose order record is stored
ComparesImplied(t) ==
    /\ Steps(t)
    /\ threads[t].op = "reconcile"
    /\ threads[t].i <= Len(threads[t].exchange_snapshot)
    /\ LET item == threads[t].exchange_snapshot[threads[t].i]
       IN  item[2] = SignedSum(processed, item[1], Len(processed))

\* C33: process_execution_report is atomic with respect to reconcile and to
\* other reports.  No step of another thread is taken while a thread has
\* stored the order record of a fill and not yet its position; and a
\* reconcile that compares a snapshot quantity equal to the position implied
\* by the reports whose order record is stored does not activate safe mode.
C33_ReportIsAtomic ==
    [][\A t \in Threads :
          /\ Steps(t) => \A u \in Threads \ {t} : ~Torn(u)
          /\ ComparesImplied(t) => in_safe_mode' = in_safe_mode]_vars

\* engine i applies, in this step, the event that is next in its order
Applies(i) ==
    /\ i \in DOMAIN engines
    /\ engines[i].pc = "loop"
    /\ engines'[i].processed = engines[i].processed + 1

\* the event engine i applies next
NextEvent(i) == engines[i].events[engines[i].processed + 1].event

\* the status of a state store is left alone, or set to a value
StatusAfter(i, status) == engines'[i].state.system_status = status
GapCountAfter(i, count) == engines'[i].state.gap_count = count

\* C34: what an event does to the simulator's state.  A GAP adds exactly 1
\* to gap_count and sets DEGRADED when the new count is greater than 5, and
\* leaves the status alone for counts 1 to 5; an ERROR sets HALT when its
\* error_type is CRITICAL and leaves the status alone otherwise; a
\* STATUS_CHANGE sets the journaled status; a PACKET that embeds no
\* execution report leaves positions, orders, status and gap_count alone.
C34_EventEffects ==
    [][\A i \in DOMAIN engines : Applies(i) =>
          LET event == NextEvent(i)
              before == engines[i].state
              after == engines'[i].state
          IN  /\ event.event_type = "GAP" =>
                    /\ GapCountAfter(i, before.gap_count + 1)
                    /\ StatusAfter(i, IF before.gap_count + 1 > 5 THEN "DEGRADED"
                                      ELSE before.system_status)
              /\ event.event_type = "ERROR" =>
                    /\ GapCountAfter(i, before.gap_count)
                    /\ StatusAfter(i, IF event.data.error_type = "CRITICAL"
                                      THEN "HALT" ELSE before.system_status)
              /\ event.event_type = "STATUS_CHANGE" =>
                    /\ GapCountAfter(i, before.gap_count)
                    /\ StatusAfter(i, event.data.status)
              /\ (event.event_type = "PACKET" /\ "status" \notin DOMAIN event.data) =>
                    /\ after.positions = before.positions
                    /\ after.orders = before.orders
                    /\ GapCountAfter(i, before.gap_count)
                    /\ StatusAfter(i, before.system_status)]_vars

\* a replay has counted its sixth gap and gone to DEGRADED, and has applied
\* an event of another kind after it
C34_Witness ==
    \E i \in DOMAIN engines :
        /\ engines[i].state.gap_count = 6
        /\ engines[i].state.system_status = "DEGRADED"
        /\ engines[i].processed > 6
        /\ engines[i].events[engines[i].processed].event.event_type = "ERROR"

\* the packets processed so far came less than 2 seconds apart, the last of
\* them less than 2 seconds ago
Beating ==
    /\ taken # <<>>
    /\ \A k \in 1..Len(taken) - 1 :
          taken[k + 1].local_arrival_ts - taken[k].local_arrival_ts < 2000000
    /\ now - taken[Len(taken)].local_arrival_ts < 2000000

\* C35: while the Observer is CONNECTED and processes packets less than 2
\* seconds apart, a submit_intent of a fresh client order id, with safe mode
\* off and tokens in the bucket, is not rejected for a stale heartbeat.
C35_HeartbeatKeptAlive ==
    [][(/\ registry' # registry
        /\ Beating
        /\ get_system_status(redis_observer) = "CONNECTED"
        /\ ~in_safe_mode
        /\ tokens >= OneToken)
          => ret'.reason.check # 3]_vars

\* the threads whose submit_intent of client order id c has returned result
Returned_submit(c, result) ==
    {t \in DOMAIN threads :
        /\ threads[t].op = "submit_intent"
        /\ threads[t].intent.client_order_id = c
        /\ threads[t].result = result}

RECURSIVE TokensGranted(_)
\* the tokens the consume calls of threads 1..n have been granted
TokensGranted(n) ==
    IF n = 0 THEN 0
    ELSE TokensGranted(n - 1) +
         (IF n \in DOMAIN threads /\ threads[n].op = "consume"
             /\ threads[n].result = "True"
          THEN threads[n].tokens ELSE 0)

\* C36: of the concurrent submit_intent calls that carry one client order id
\* at most one returns ACCEPTED, and once one has, none returns HARD_BLOCK;
\* the concurrent consume calls are never granted more tokens than the
\* bucket held (the clock stands still, so nothing is refilled), and the
\* bucket never holds less than no token.
C36_SerializedRegistryAndBucket ==
    /\ \A c \in CoreCloids :
          /\ Cardinality(Returned_submit(c, "ACCEPTED")) <= 1
          /\ Returned_submit(c, "ACCEPTED") # {} => Returned_submit(c, "HARD_BLOCK") = {}
    /\ TokensGranted(MaxThreads) <= bucket.capacity
    /\ bucket.tokens >= 0

\* C37: after a reconcile cycle that ended with reconciliation_passed, every
\* symbol with a nonzero internal position is in the exchange snapshot of
\* the cycle, with a quantity that agrees with the position; a nonzero
\* position whose symbol the snapshot lacks makes the cycle fail.
C37_PassedMeansAgreement ==
    (ret.op = "reconcile" /\ HasEvent(ret.log, "reconciliation_passed")) =>
        \A symbol \in DOMAIN positions :
            get_position(positions, symbol) # 0 =>
                \E k \in 1..Len(ret.arg) :
                    ret.arg[k][1] = symbol /\ ~Mismatch(ret.arg, k)

\* C38: in a replay HALT is absorbing with respect to GAP events: a GAP that
\* is applied while the status is HALT leaves it HALT, and a GAP changes the
\* status only from CONNECTED, to DEGRADED.
C38_HaltAbsorbsGap ==
    [][\A i \in DOMAIN engines :
          (Applies(i) /\ NextEvent(i).event_type = "GAP") =>
              LET before == engines[i].state.system_status
              IN  /\ before = "HALT" => StatusAfter(i, "HALT")
                  /\ ~StatusAfter(i, before) =>
                        before = "CONNECTED" /\ StatusAfter(i, "DEGRADED")]_vars

\* C39: every call of run starts from an empty state, and a call of run on
\* an engine whose run has returned, with the journal as it was, returns the
\* verdict and leaves the hash log that the call before it did.
C39_RunStartsEmpty ==
    \A i \in DOMAIN engines :
        /\ (engines[i].pc = "loop" /\ engines[i].processed = 0) =>
              /\ engines[i].state = SimulatedStateStore
              /\ engines[i].hash_log = <<>>
        /\ Returned(i) =>
              \A k \in 1..Len(engines[i].earlier_runs) :
                  /\ engines[i].earlier_runs[k].verdict = engines[i].verdict
                  /\ engines[i].earlier_runs[k].hash_log = engines[i].hash_log

\* nothing is appended to the journal once its file is closed
NoAppendAfterClose == [][journal_file = "closed" => journal' = journal]_vars

\* a shutdown that has begun closes the journal in the end
ShutdownCloses == ~running ~> journal_file = "closed"

\* C40: in every interleaving of the ingestors, the processor, the shutdown
\* task of a signal and the failure path of start, with the HALT that start
\* journals when a stream fails during a shutdown, no entry is appended to
\* the journal after it is closed; and once shutdown has begun the journal
\* is closed in the end.
C40_JournalClosedLast == NoAppendAfterClose /\ ShutdownCloses

====
